---- MODULE Spec2Model ----
(***************************************************************************)
(* Token Price Oracle: the price resolver (cache middleware -> getPrice ->  *)
(* MongoDB -> upstream -> interpolation), the durable price store and its   *)
(* bulk writer.  Strings the code inspects character by character (token,   *)
(* network) are sequences of one-character strings; prices are integer      *)
(* cents (the upstream adapter and the interpolation engine both round to   *)
(* two decimals); instants are integer milliseconds since the epoch.        *)
(***************************************************************************)
EXTENDS Integers, Sequences, FiniteSets, TLC

VARIABLES
    now,            \* the wall clock, ms (Date.now())
    redisConnected, \* RedisService.isConnected
    cache,          \* the Redis keyspace: a set of [key, value] entries
    mongoReady,     \* MongoDBService.isReady()
    prices,         \* the `prices` collection: a set of documents
    req,            \* the resolve requests in flight, one record per slot
    bulk,           \* the insertMany call in flight (savePrices)
    started,        \* events so far (bounded)
    vin,            \* input of the validation-only specification
    vout,           \* its outcome
    scheduledJobs,  \* the keys of the scheduledJobs Map, in insertion order
    jobObjs,        \* the JobData objects ever created; the uuid of an object is its index
    suspended,      \* schedule handlers waiting at `await bullMQService.addPriceHistoryJob`
    queue,          \* the jobs added to the BullMQ queue, in order
    bullEnabled,    \* BullMQService.isEnabled && queue
    bullRedisUp,    \* whether queue.add reaches the queue's Redis
    sreq,           \* the schedule request received last
    sres,           \* the response sent last by a schedule handler
    bjob,           \* the BullMQ job the worker processes
    wk,             \* processPriceHistoryJob: the attempt in progress
    upGaps          \* the days for which upstream has no historical price

regVars == <<scheduledJobs, jobObjs, suspended, queue, bullEnabled, bullRedisUp, sreq, sres>>
workVars == <<bjob, wk, upGaps>>

vars == <<now, redisConnected, cache, mongoReady, prices, req, bulk, started, vin, vout,
          regVars, workVars>>

\* ------------------------------------------------------------------ bounds

\* events in one behaviour: resolve requests received, bulk inserts started and
\* connections lost
MaxOps == 2
\* the clock at start-up, ms
BootMs == 3000
\* the time between two arrivals, ms: no two requests arrive in the same millisecond
ArrivalGapMs == 500

Slots == {1, 2}

\* ---------------------------------------------------------------- strings

LowerLetters == <<"a", "b", "c", "d", "e", "f", "g", "h", "i", "j", "k", "l", "m",
                  "n", "o", "p", "q", "r", "s", "t", "u", "v", "w", "x", "y", "z">>
UpperLetters == <<"A", "B", "C", "D", "E", "F", "G", "H", "I", "J", "K", "L", "M",
                  "N", "O", "P", "Q", "R", "S", "T", "U", "V", "W", "X", "Y", "Z">>
Digits == {"0", "1", "2", "3", "4", "5", "6", "7", "8", "9"}
Letters == {LowerLetters[i] : i \in DOMAIN LowerLetters} \cup {UpperLetters[i] : i \in DOMAIN UpperLetters}
AlNum == Digits \cup Letters
HexChars == Digits \cup {"a", "b", "c", "d", "e", "f", "A", "B", "C", "D", "E", "F"}

toUpperChar(c) ==
    IF \E i \in DOMAIN LowerLetters : LowerLetters[i] = c
    THEN UpperLetters[CHOOSE i \in DOMAIN LowerLetters : LowerLetters[i] = c]
    ELSE c

toLowerChar(c) ==
    IF \E i \in DOMAIN UpperLetters : UpperLetters[i] = c
    THEN LowerLetters[CHOOSE i \in DOMAIN UpperLetters : UpperLetters[i] = c]
    ELSE c

toUpperCase(s) == [i \in DOMAIN s |-> toUpperChar(s[i])]
toLowerCase(s) == [i \in DOMAIN s |-> toLowerChar(s[i])]

AllIn(s, from, set) == \A i \in from..Len(s) : s[i] \in set

Rep(c, n) == [i \in 1..n |-> c]

\* the absent request parameter (undefined): of a string parameter, of the timestamp
Undefined == <<"undefined">>
NoTimestamp == [kind |-> "undefined", ms |-> 0]
\* null, as returned by the services
Null == [kind |-> "null"]

\* -------------------------------------------------------------- timestamps

\* A timestamp string: kind "iso" is an ISO-8601 instant, "text" a date that
\* Date() parses but isISO8601 rejects, "bad" parses to NaN.
Ts(ms) == [kind |-> "iso", ms |-> ms]
TextTs(ms) == [kind |-> "text", ms |-> ms]
BadTs == [kind |-> "bad", ms |-> 0]

isISO8601(ts) == ts.kind = "iso"
isNaNDate(ts) == ts.kind = "bad"
getTime(ts) == ts.ms
toISOString(ms) == Ts(ms)

\* ------------------------------------------------------------- validation

ethereum == <<"e", "t", "h", "e", "r", "e", "u", "m">>
polygon == <<"p", "o", "l", "y", "g", "o", "n">>
arbitrum == <<"a", "r", "b", "i", "t", "r", "u", "m">>
optimism == <<"o", "p", "t", "i", "m", "i", "s", "m">>
base == <<"b", "a", "s", "e">>

\* the list both validators pass to isIn, and the keys of AlchemyService.networkMap
getSupportedNetworks == {ethereum, polygon, arbitrum, optimism, base}

\* /^0x[a-fA-F0-9]{1,40}$/
MatchesAddressUpTo40(s) ==
    /\ Len(s) >= 3 /\ Len(s) <= 42
    /\ s[1] = "0" /\ s[2] = "x"
    /\ AllIn(s, 3, HexChars)

\* /^[A-Za-z0-9]{2,10}$/  and  /^[A-Z0-9]{2,10}$/i
MatchesSymbol(s) == Len(s) >= 2 /\ Len(s) <= 10 /\ AllIn(s, 1, AlNum)

\* /^[A-Za-z0-9]+$/
MatchesAlNumPlus(s) == Len(s) >= 1 /\ AllIn(s, 1, AlNum)

\* /^0x[a-fA-F0-9]{40}$/
isValidTokenAddress(s) ==
    /\ Len(s) = 42
    /\ s[1] = "0" /\ s[2] = "x"
    /\ AllIn(s, 3, HexChars)

\* the .custom() of the timestamp chains: new Date(value) > new Date()
InFuture(ts, clock) == ~isNaNDate(ts) /\ getTime(ts) > clock

\* express-validator chains of POST /price: TRUE when validationResult(req) holds an error
validatePriceRequest(body, clock) ==
    \/ body.token = Undefined
    \/ ~(MatchesAddressUpTo40(body.token) \/ MatchesSymbol(body.token))
    \/ body.network = Undefined
    \/ body.network \notin getSupportedNetworks
    \/ ~isISO8601(body.timestamp)
    \/ InFuture(body.timestamp, clock)

\* express-validator chains of GET /price
validatePriceQueryRequest(query, clock) ==
    \/ query.token = Undefined
    \/ ~(Len(query.token) >= 1 /\ Len(query.token) <= 10)
    \/ ~MatchesAlNumPlus(query.token)
    \/ query.network = Undefined
    \/ query.network \notin getSupportedNetworks
    \/ /\ query.timestamp # NoTimestamp
       /\ (~isISO8601(query.timestamp) \/ InFuture(query.timestamp, clock))

NoParams == [token |-> Undefined, network |-> Undefined, timestamp |-> NoTimestamp]

\* express.json() leaves req.body = {} on a request without a body; a POST has no query string
BodyOf(method, params) == IF method = "POST" THEN params ELSE NoParams
QueryOf(method, params) == IF method = "GET" THEN params ELSE NoParams

ValidationErrors(method, params, clock) ==
    IF method = "POST"
    THEN validatePriceRequest(BodyOf(method, params), clock)
    ELSE validatePriceQueryRequest(QueryOf(method, params), clock)

\* a || b on string parameters, and on the timestamp
OrElse(a, b) == IF a # Undefined /\ a # <<>> THEN a ELSE b
OrElseTs(a, b) == IF a # NoTimestamp THEN a ELSE b

\* getPrice up to its first await: the response it sends, or Null when it goes on
\* to the store lookup
GetPriceChecks(errors, token, network, timestamp, clock) ==
    IF errors THEN [status |-> 400, error |-> "Validation failed"]
    ELSE IF ~isValidTokenAddress(token) /\ ~MatchesSymbol(token)
    THEN [status |-> 400, error |-> "Invalid token format"]
    ELSE IF network \notin getSupportedNetworks
    THEN [status |-> 400, error |-> "Unsupported network"]
    ELSE IF isNaNDate(timestamp)
    THEN [status |-> 400, error |-> "Invalid timestamp format"]
    ELSE IF getTime(timestamp) > clock
    THEN [status |-> 400, error |-> "Timestamp cannot be in the future"]
    ELSE Null

\* getPrice from its entry to its first await: the parameters it extracts and the
\* response it sends (Null when it goes on to the store lookup)
getPriceEntry(method, params, errors, clock) ==
    LET body == BodyOf(method, params)
        query == QueryOf(method, params)
        token == OrElse(body.token, query.token)
        network == OrElse(body.network, query.network)
        timestamp == OrElseTs(body.timestamp, OrElseTs(query.timestamp, toISOString(clock)))
    IN [token |-> token, network |-> network, timestamp |-> timestamp,
        check |-> GetPriceChecks(errors, token, network, timestamp, clock)]

\* Math.floor(timestampDate.getTime() / 1000)
unixTimestamp(timestamp) == getTime(timestamp) \div 1000

\* ------------------------------------------------------------------ cache

unknown == <<"u", "n", "k", "n", "o", "w", "n">>

\* RedisService.generateKey
generateKey(token, network, timestamp, clock) ==
    << IF token = Undefined \/ token = <<>> THEN unknown ELSE toLowerCase(token),
       IF network = Undefined \/ network = <<>> THEN unknown ELSE toLowerCase(network),
       IF timestamp = NoTimestamp THEN toISOString(clock) ELSE timestamp >>

\* the key generator of priceCacheMiddleware: it reads req.body only
priceCacheKey(method, params, clock) ==
    LET body == BodyOf(method, params)
    IN generateKey(body.token, body.network, body.timestamp, clock)

\* RedisService.get
redisGet(key) ==
    IF ~redisConnected THEN Null
    ELSE IF \E e \in cache : e.key = key
    THEN (CHOOSE e \in cache : e.key = key).value
    ELSE Null

\* RedisService.set (SETEX overwrites); the keyspace afterwards
redisSet(key, value) ==
    IF ~redisConnected THEN cache
    ELSE {e \in cache : e.key # key} \cup {[key |-> key, value |-> value]}

\* a hook that caches whatever is sent, whatever its status
setCacheOnSend_AnyStatus(key, resp, clock) ==
    IF key # <<>>
    THEN redisSet(key, [price |-> IF "price" \in DOMAIN resp THEN resp.price ELSE 0,
                        source |-> "alchemy",
                        timestamp |-> toISOString(clock), cachedAt |-> toISOString(clock)])
    ELSE cache

\* the res.send hook of setCacheMiddleware: the keyspace after `resp` is sent
setCacheOnSend(key, resp, clock) ==
    IF resp.status >= 200 /\ resp.status < 300 /\ key # <<>>
    THEN redisSet(key, [price |-> resp.price, source |-> "alchemy",
                        timestamp |-> toISOString(clock), cachedAt |-> toISOString(clock)])
    ELSE cache

\* the body cacheMiddleware answers with on a hit
CacheHitResponse(parsedData) ==
    [status |-> 200, price |-> parsedData.price, source |-> "cache",
     timestamp |-> parsedData.timestamp, cachedAt |-> parsedData.cachedAt]

\* ------------------------------------------------------------------ store

\* the setters of PriceSchema (uppercase: true, lowercase: true)
PriceDoc(data) ==
    [token |-> toUpperCase(data.token), network |-> toLowerCase(data.network),
     date |-> data.date, timestamp |-> data.timestamp, price |-> data.price,
     source |-> data.source]

\* the unique index { token: 1, network: 1, timestamp: 1 }
SameKey(a, b) == a.token = b.token /\ a.network = b.network /\ a.timestamp = b.timestamp

\* the collection without the index
UniqueIndexAllows_NoIndex(coll, doc) == TRUE
UniqueIndexAllows(coll, doc) == ~\E d \in coll : SameKey(d, doc)

\* one insert into the collection: [ok, coll]
InsertOne(coll, doc) ==
    IF UniqueIndexAllows(coll, doc)
    THEN [ok |-> TRUE, coll |-> coll \cup {doc}]
    ELSE [ok |-> FALSE, coll |-> coll]

\* an upsert in place of the insert
createPrice_Upsert(coll, ready, priceData) ==
    IF ~ready THEN [outcome |-> "threw", error |-> "not connected", coll |-> coll]
    ELSE [outcome |-> "saved", error |-> "",
          coll |-> {d \in coll : ~SameKey(d, PriceDoc(priceData))} \cup {PriceDoc(priceData)}]

\* MongoDBService.createPrice: [outcome, coll]; "threw" is the rejected promise
createPrice(coll, ready, priceData) ==
    IF ~ready THEN [outcome |-> "threw", error |-> "not connected", coll |-> coll]
    ELSE LET r == InsertOne(coll, PriceDoc(priceData))
         IN IF r.ok THEN [outcome |-> "saved", error |-> "", coll |-> r.coll]
            ELSE [outcome |-> "threw", error |-> "duplicate key", coll |-> r.coll]

\* Price.findOne({token, network, timestamp})
FindOne(coll, token, network, timestamp) ==
    LET hits == {d \in coll : d.token = token /\ d.network = network /\ d.timestamp = timestamp}
    IN IF hits = {} THEN Null ELSE CHOOSE d \in hits : TRUE

\* MongoDBService.findPriceByTimestamp
findPriceByTimestamp(coll, ready, token, network, timestamp) ==
    IF ~ready THEN Null
    ELSE FindOne(coll, toUpperCase(token), toLowerCase(network), timestamp)

\* the two queries answered from the collection although the connection is down
findClosestPrices_Buffered(coll, ready, token, network, timestamp) ==
    LET mine == {d \in coll : d.token = toUpperCase(token) /\ d.network = toLowerCase(network)}
        lte == {d \in mine : d.timestamp <= timestamp}
        gte == {d \in mine : d.timestamp >= timestamp}
    IN << IF lte = {} THEN Null
          ELSE CHOOSE d \in lte : \A e \in lte : e.timestamp <= d.timestamp,
          IF gte = {} THEN Null
          ELSE CHOOSE d \in gte : \A e \in gte : e.timestamp >= d.timestamp >>

\* PriceSchema.statics.findClosestPrices behind MongoDBService.findClosestPrices
findClosestPrices(coll, ready, token, network, timestamp) ==
    IF ~ready THEN <<Null, Null>>
    ELSE LET mine == {d \in coll : d.token = toUpperCase(token) /\ d.network = toLowerCase(network)}
             lte == {d \in mine : d.timestamp <= timestamp}
             gte == {d \in mine : d.timestamp >= timestamp}
         IN << IF lte = {} THEN Null
               ELSE CHOOSE d \in lte : \A e \in lte : e.timestamp <= d.timestamp,
               IF gte = {} THEN Null
               ELSE CHOOSE d \in gte : \A e \in gte : e.timestamp >= d.timestamp >>

\* Math.floor in the place of Math.round
RoundCents_Floor(num, den) == num \div den

\* Math.round(x * 100) / 100 of the rational num / den (den > 0), in cents:
\* Math.round rounds half towards +infinity
RoundCents(num, den) == num \div den + (IF 2 * (num % den) >= den THEN 1 ELSE 0)

\* a confidence, in ten-thousandths; NaN is what 0 / 0 gives
Confidence(e4) == [nan |-> FALSE, e4 |-> e4]
NaN == [nan |-> TRUE, e4 |-> 0]
FullConfidence == Confidence(100 * 100)

\* the least integer >= a / b, for b > 0
CeilDiv(a, b) == (a + b - 1) \div b

\* the gap measured against fourteen days
timeConfidence_Fortnight(beforeTs, afterTs) ==
    LET totalGap == afterTs - beforeTs
        maxAcceptableGap == 14 * 24 * 60 * 60
    IN IF totalGap >= maxAcceptableGap THEN 0
       ELSE 100 * 100 - CeilDiv(totalGap * 1000, maxAcceptableGap \div 10)

\* Math.max(0, 1 - totalGap / maxAcceptableGap), rounded down to ten-thousandths
timeConfidence(beforeTs, afterTs) ==
    LET totalGap == afterTs - beforeTs
        maxAcceptableGap == 7 * 24 * 60 * 60
    IN IF totalGap >= maxAcceptableGap THEN 0
       ELSE 100 * 100 - CeilDiv(totalGap * 1000, maxAcceptableGap \div 10)

\* Math.max(0, 1 - priceChange / 0.5): 0 / 0 is NaN and Math.max(0, NaN) is NaN;
\* x / 0 is Infinity for x > 0
stabilityConfidence(beforePrice, afterPrice) ==
    LET change == IF afterPrice >= beforePrice THEN afterPrice - beforePrice
                  ELSE beforePrice - afterPrice
    IN IF beforePrice = 0 THEN (IF change = 0 THEN NaN ELSE Confidence(0))
       ELSE IF 2 * change >= beforePrice THEN Confidence(0)
       ELSE Confidence(100 * 100 - CeilDiv(2 * change * 100 * 100, beforePrice))

\* Math.min(beforeGap, afterGap) / Math.max(beforeGap, afterGap), rounded down
positionConfidence(queryTs, beforeTs, afterTs) ==
    LET beforeGap == queryTs - beforeTs
        afterGap == afterTs - queryTs
        lo == IF beforeGap <= afterGap THEN beforeGap ELSE afterGap
        hi == IF beforeGap <= afterGap THEN afterGap ELSE beforeGap
    IN ((lo * 100) \div hi) * 100 + (((lo * 100) % hi) * 100) \div hi

\* a confidence that is always inside [0, 1]: NaN counted as 0
calculateInterpolationConfidence_NaNAsZero(queryTs, beforeTs, afterTs, beforePrice, afterPrice) ==
    LET stability == stabilityConfidence(beforePrice, afterPrice)
    IN Confidence((4 * timeConfidence(beforeTs, afterTs) + 4 * stability.e4
                   + 2 * positionConfidence(queryTs, beforeTs, afterTs)) \div 10)

\* calculateInterpolationConfidence: the weighted sum, clamped by
\* Math.min(1, Math.max(0, confidence)), which leaves NaN as it is
calculateInterpolationConfidence(queryTs, beforeTs, afterTs, beforePrice, afterPrice) ==
    LET stability == stabilityConfidence(beforePrice, afterPrice)
        sum == (4 * timeConfidence(beforeTs, afterTs) + 4 * stability.e4
                + 2 * positionConfidence(queryTs, beforeTs, afterTs)) \div 10
    IN IF stability.nan THEN NaN
       ELSE Confidence(IF sum < 0 THEN 0 ELSE IF sum > 100 * 100 THEN 100 * 100 ELSE sum)

\* interpolatePrice without the check of equal timestamps: the price of the point itself
interpolatePrice_NoDegenerateCheck(coll, ready, token, network, queryTimestamp) ==
    LET pair == findClosestPrices(coll, ready, token, network, queryTimestamp)
        beforePrice == pair[1]
        afterPrice == pair[2]
    IN IF beforePrice = Null \/ afterPrice = Null THEN Null
       ELSE IF beforePrice.timestamp = afterPrice.timestamp
       THEN [price |-> beforePrice.price, source |-> "interpolated", confidence |-> NaN]
       ELSE [price |-> beforePrice.price
                         + RoundCents((afterPrice.price - beforePrice.price)
                                         * (queryTimestamp - beforePrice.timestamp),
                                      afterPrice.timestamp - beforePrice.timestamp),
             source |-> "interpolated",
             confidence |-> calculateInterpolationConfidence(
                                queryTimestamp, beforePrice.timestamp, afterPrice.timestamp,
                                beforePrice.price, afterPrice.price)]

\* interpolatePrice: Null, or [price, source, confidence]
interpolatePrice(coll, ready, token, network, queryTimestamp) ==
    LET pair == findClosestPrices(coll, ready, token, network, queryTimestamp)
        beforePrice == pair[1]
        afterPrice == pair[2]
    IN IF beforePrice = Null /\ afterPrice = Null THEN Null
       ELSE IF beforePrice = Null \/ afterPrice = Null THEN Null
       ELSE IF beforePrice.timestamp = afterPrice.timestamp THEN Null
       ELSE LET ts1 == beforePrice.timestamp
                ts2 == afterPrice.timestamp
                price1 == beforePrice.price
                price2 == afterPrice.price
            IN [price |-> price1 + RoundCents((price2 - price1) * (queryTimestamp - ts1),
                                              ts2 - ts1),
                source |-> "interpolated",
                confidence |-> calculateInterpolationConfidence(queryTimestamp, ts1, ts2,
                                                                 price1, price2)]

\* the symbols of tokenMap in AlchemyService.fetchRealTokenPrice
tokenMap == { <<"B", "T", "C">>, <<"E", "T", "H">>, <<"U", "S", "D", "C">>, <<"U", "S", "D", "T">>,
              <<"M", "A", "T", "I", "C">>, <<"L", "I", "N", "K">>, <<"U", "N", "I">>,
              <<"A", "A", "V", "E">>, <<"C", "O", "M", "P">>, <<"M", "K", "R">> }

\* the prices the market-data provider may answer with, in cents
UpstreamPrices == {100, 200}

\* AlchemyService.getTokenPrice: the answers it can give (Null for no data, for an
\* unmapped token, and for every error it catches)
getTokenPrice(token, network, timestamp) ==
    IF network \notin getSupportedNetworks THEN {Null}
    ELSE IF toUpperCase(token) \notin tokenMap THEN {Null}
    ELSE {Null} \cup {[price |-> p, timestamp |-> timestamp] : p \in UpstreamPrices}

\* --------------------------------------------------------------- requests

ETH == <<"E", "T", "H">>
eth == <<"e", "t", "h">>
Base == <<"B", "a", "s", "e">>

Params(token, network, timestamp) == [token |-> token, network |-> network, timestamp |-> timestamp]
\* the requests sent: two spellings of one token and two instants of one second, a
\* network spelt with a capital, an instant after start-up, the GET route with and
\* without a timestamp, and a body that carries nothing but the instant of the first arrival
Requests ==
    { [method |-> "POST", params |-> Params(ETH, base, Ts(2000))],
      [method |-> "POST", params |-> Params(eth, base, Ts(2500))],
      [method |-> "POST", params |-> Params(ETH, Base, Ts(2000))],
      [method |-> "POST", params |-> Params(ETH, base, Ts(4000))],
      [method |-> "GET", params |-> Params(ETH, base, Ts(2000))],
      [method |-> "GET", params |-> Params(ETH, base, NoTimestamp)],
      [method |-> "POST", params |-> Params(Undefined, Undefined, Ts(BootMs + ArrivalGapMs))] }

\* what the collection may hold when the service starts
SeedPrices ==
    { [token |-> ETH, network |-> base, date |-> Ts(1000), timestamp |-> 1, price |-> 100,
       source |-> "alchemy"],
      [token |-> ETH, network |-> base, date |-> Ts(3000), timestamp |-> 3, price |-> 201,
       source |-> "alchemy"] }

\* the rows savePriceHistory hands to savePrices
BulkRow(ms, price, source) ==
    [token |-> ETH, network |-> base, date |-> toISOString(ms), timestamp |-> ms \div 1000,
     price |-> price, source |-> source]
BulkBatches ==
    { << BulkRow(2000, 100, "alchemy") >>,
      << BulkRow(2000, 150, "interpolated"), BulkRow(3000, 200, "alchemy") >>,
      << BulkRow(4000, 100, "alchemy"), BulkRow(4000, 200, "alchemy") >> }

IdleReq ==
    [pc |-> "idle", method |-> "", params |-> NoParams, errors |-> FALSE, cacheKey |-> <<>>,
     token |-> Undefined, network |-> Undefined, timestamp |-> NoTimestamp,
     priceData |-> Null, interp |-> Null, saved |-> Null, found |-> Null, probe |-> Null,
     resp |-> Null, log |-> <<>>]

IdleBulk == [pc |-> "idle", rows |-> <<>>, inserted |-> 0, result |-> "none"]

NoInput == [method |-> "", params |-> NoParams]
Pending == [kind |-> "pending"]

\* no schedule request received yet
NoRequest == [n |-> 0, op |-> "none", id |-> 0, body |-> Null]
\* no response sent yet by a schedule handler
NoResponse == [op |-> "none", status |-> 0]
\* the worker between attempts
IdleWorker == [pc |-> "idle"]

\* the registry and the queue after construction, with a queue that works
RegistryAtStart ==
    /\ scheduledJobs = <<>>
    /\ jobObjs = <<>>
    /\ suspended = {}
    /\ queue = <<>>
    /\ bullEnabled = TRUE
    /\ bullRedisUp = TRUE
    /\ sreq = NoRequest
    /\ sres = NoResponse

\* the worker before any job
WorkerAtStart ==
    /\ bjob = <<>>
    /\ wk = IdleWorker
    /\ upGaps = {}

Init ==
    /\ RegistryAtStart
    /\ WorkerAtStart
    /\ now = BootMs
    /\ redisConnected = TRUE
    /\ cache = {}
    /\ mongoReady = TRUE
    /\ prices \in {{}, SeedPrices}
    /\ req = [r \in Slots |-> IdleReq]
    /\ bulk = IdleBulk
    /\ started = 0
    /\ vin = NoInput
    /\ vout = Pending

\* the fingerprint of a point query: price:{token_lower}:{network_lower}:{iso timestamp}
Fingerprint(params, clock) == generateKey(params.token, params.network, params.timestamp, clock)

\* validation chain, then cacheMiddleware up to `await redisService.get(cacheKey)`
Receive(r, method, params) ==
    /\ req[r].pc = "idle"
    /\ \A other \in Slots : other < r => req[other].pc # "idle"
    /\ started < MaxOps
    /\ started' = started + 1
    /\ now' = now + ArrivalGapMs
    /\ req' = [req EXCEPT ![r] =
                 [IdleReq EXCEPT !.pc = "cacheGet", !.method = method, !.params = params,
                                 !.errors = ValidationErrors(method, params, now'),
                                 !.cacheKey = priceCacheKey(method, params, now')]]
    /\ UNCHANGED <<redisConnected, cache, mongoReady, prices, bulk, vin, vout, regVars, workVars>>

\* the stored source overwritten, as the cache middleware does
StoredResponse_AsCache(existingPrice) ==
    [status |-> 200, price |-> existingPrice.price, source |-> "cache",
     timestamp |-> existingPrice.date, token |-> existingPrice.token,
     network |-> existingPrice.network]

\* the response getPrice builds from a stored document
StoredResponse(existingPrice) ==
    [status |-> 200, price |-> existingPrice.price, source |-> existingPrice.source,
     timestamp |-> existingPrice.date, token |-> existingPrice.token,
     network |-> existingPrice.network]

\* the response getPrice builds after the upstream or the interpolation branch
FreshResponse(price, source, timestamp, token, network) ==
    [status |-> 200, price |-> price, source |-> source, timestamp |-> timestamp,
     token |-> token, network |-> network]

\* exhaustion reported as a failure of the service
NotFoundResponse_AsError == [status |-> 500, error |-> "Internal server error"]
NotFoundResponse == [status |-> 404, error |-> "Price data not found"]

\* the inner try/catch left out: the rejection reaches getPrice's outer catch
AfterCreatePrice_Rethrow(outcome, response) ==
    IF outcome = "threw" THEN [status |-> 500, error |-> "Internal server error"] ELSE response

\* try { await mongoService.createPrice(...) } catch { logger.warn } and then the
\* response: what is sent, given createPrice's outcome
AfterCreatePrice(outcome, response) == response

\* cacheMiddleware after redisService.get resolved: a hit answers; a miss calls
\* next(): setCacheMiddleware hooks res.send and getPrice runs to its first await
CacheGet(r) ==
    LET q == req[r]
        cachedData == redisGet(q.cacheKey)
        fp == Fingerprint(q.params, now)
        probe == [hit |-> redisGet(fp) # Null, data |-> redisGet(fp)]
        entry == getPriceEntry(q.method, q.params, q.errors, now)
    IN /\ q.pc = "cacheGet"
       /\ IF cachedData # Null
          THEN req' = [req EXCEPT ![r] = [q EXCEPT !.pc = "done", !.probe = probe,
                                                   !.resp = CacheHitResponse(cachedData),
                                                   !.log = <<"cacheHit">>]]
          ELSE req' = [req EXCEPT ![r] =
                         [q EXCEPT !.pc = IF entry.check # Null THEN "done" ELSE "find",
                                   !.probe = probe,
                                   !.token = entry.token, !.network = entry.network,
                                   !.timestamp = entry.timestamp,
                                   !.resp = entry.check,
                                   !.log = <<"cacheMiss">>]]
       /\ cache' = IF cachedData = Null /\ entry.check # Null
                   THEN setCacheOnSend(q.cacheKey, entry.check, now) ELSE cache
       /\ UNCHANGED <<now, redisConnected, mongoReady, prices, bulk, started, vin, vout, regVars, workVars>>

\* getPrice step 1: mongoService.findPriceByTimestamp resolved
FindPrice(r) ==
    LET q == req[r]
        existingPrice == findPriceByTimestamp(prices, mongoReady, q.token, q.network,
                                              unixTimestamp(q.timestamp))
    IN /\ q.pc = "find"
       /\ IF existingPrice # Null
          THEN /\ req' = [req EXCEPT ![r] = [q EXCEPT !.pc = "done", !.found = existingPrice,
                                                      !.resp = StoredResponse(existingPrice),
                                                      !.log = Append(q.log, "storeHit")]]
               /\ cache' = setCacheOnSend(q.cacheKey, StoredResponse(existingPrice), now)
          ELSE /\ req' = [req EXCEPT ![r] =
                            [q EXCEPT !.pc = "fetch",
                                      !.log = Append(q.log, IF mongoReady THEN "storeMiss"
                                                                           ELSE "storeDown")]]
               /\ cache' = cache
       /\ UNCHANGED <<now, redisConnected, mongoReady, prices, bulk, started, vin, vout, regVars, workVars>>

\* getPrice step 2: alchemyService.getTokenPrice resolved
FetchUpstream(r) ==
    LET q == req[r]
    IN /\ q.pc = "fetch"
       /\ \E priceData \in getTokenPrice(q.token, q.network, q.timestamp) :
            req' = [req EXCEPT ![r] =
                      [q EXCEPT !.pc = IF priceData # Null THEN "saveAlchemy" ELSE "interpolate",
                                !.priceData = priceData,
                                !.log = Append(q.log, IF priceData # Null THEN "upstreamData"
                                                                           ELSE "upstreamNull")]]
       /\ UNCHANGED <<now, redisConnected, cache, mongoReady, prices, bulk, started, vin, vout, regVars, workVars>>

\* the document keyed by the instant in milliseconds
WriteThrough_Millis(q, price, source) ==
    [token |-> toUpperCase(q.token), network |-> toLowerCase(q.network), date |-> q.timestamp,
     timestamp |-> getTime(q.timestamp), price |-> price, source |-> source]

\* the document getPrice hands to createPrice
WriteThrough(q, price, source) ==
    [token |-> toUpperCase(q.token), network |-> toLowerCase(q.network), date |-> q.timestamp,
     timestamp |-> unixTimestamp(q.timestamp), price |-> price, source |-> source]

\* getPrice step 2, after `await mongoService.createPrice`: respond with the upstream price
SaveAlchemy(r) ==
    LET q == req[r]
        data == WriteThrough(q, q.priceData.price, "alchemy")
        res == createPrice(prices, mongoReady, data)
        response == AfterCreatePrice(res.outcome,
                        FreshResponse(q.priceData.price, "alchemy", q.priceData.timestamp,
                                      q.token, q.network))
    IN /\ q.pc = "saveAlchemy"
       /\ prices' = res.coll
       /\ req' = [req EXCEPT ![r] = [q EXCEPT !.pc = "done",
                                              !.saved = [data |-> data, outcome |-> res.outcome,
                                                         error |-> res.error],
                                              !.resp = response,
                                              !.log = Append(q.log, "createPrice")]]
       /\ cache' = setCacheOnSend(q.cacheKey, response, now)
       /\ UNCHANGED <<now, redisConnected, mongoReady, bulk, started, vin, vout, regVars, workVars>>

\* getPrice step 3: interpolatePrice resolved; step 4 when it gave nothing
Interpolate(r) ==
    LET q == req[r]
        interpolationResult == interpolatePrice(prices, mongoReady, q.token, q.network,
                                                unixTimestamp(q.timestamp))
    IN /\ q.pc = "interpolate"
       /\ req' = [req EXCEPT ![r] =
                    [q EXCEPT !.pc = IF interpolationResult # Null THEN "saveInterpolated"
                                                                    ELSE "done",
                              !.interp = interpolationResult,
                              !.resp = IF interpolationResult # Null THEN Null
                                                                      ELSE NotFoundResponse,
                              !.log = Append(q.log, IF interpolationResult # Null
                                                    THEN "interpolated" ELSE "interpolateNull")]]
       /\ cache' = IF interpolationResult = Null
                   THEN setCacheOnSend(q.cacheKey, NotFoundResponse, now) ELSE cache
       /\ UNCHANGED <<now, redisConnected, mongoReady, prices, bulk, started, vin, vout, regVars, workVars>>

\* step 3 persisting under the label of step 2
SaveInterpolated_AsAlchemy(r) ==
    LET q == req[r]
        data == WriteThrough(q, q.interp.price, "alchemy")
        res == createPrice(prices, mongoReady, data)
        response == AfterCreatePrice(res.outcome,
                        FreshResponse(q.interp.price, "interpolated", q.timestamp,
                                      q.token, q.network))
    IN /\ q.pc = "saveInterpolated"
       /\ prices' = res.coll
       /\ req' = [req EXCEPT ![r] = [q EXCEPT !.pc = "done",
                                              !.saved = [data |-> data, outcome |-> res.outcome,
                                                         error |-> res.error],
                                              !.resp = response,
                                              !.log = Append(q.log, "createPrice")]]
       /\ cache' = setCacheOnSend(q.cacheKey, response, now)
       /\ UNCHANGED <<now, redisConnected, mongoReady, bulk, started, vin, vout, regVars, workVars>>

\* getPrice step 3, after `await mongoService.createPrice`: respond with the interpolated price
SaveInterpolated(r) ==
    LET q == req[r]
        data == WriteThrough(q, q.interp.price, "interpolated")
        res == createPrice(prices, mongoReady, data)
        response == AfterCreatePrice(res.outcome,
                        FreshResponse(q.interp.price, "interpolated", q.timestamp,
                                      q.token, q.network))
    IN /\ q.pc = "saveInterpolated"
       /\ prices' = res.coll
       /\ req' = [req EXCEPT ![r] = [q EXCEPT !.pc = "done",
                                              !.saved = [data |-> data, outcome |-> res.outcome,
                                                         error |-> res.error],
                                              !.resp = response,
                                              !.log = Append(q.log, "createPrice")]]
       /\ cache' = setCacheOnSend(q.cacheKey, response, now)
       /\ UNCHANGED <<now, redisConnected, mongoReady, bulk, started, vin, vout, regVars, workVars>>

\* the response has been delivered; the slot takes the next request
Close(r) ==
    /\ req[r].pc = "done"
    /\ req' = [req EXCEPT ![r] = IdleReq]
    /\ UNCHANGED <<now, redisConnected, cache, mongoReady, prices, bulk, started, vin, vout, regVars, workVars>>

\* ------------------------------------------------------------ bulk writer

\* MongoDBService.savePrices: the isReady() guard, then Price.insertMany(prices, {ordered: false})
SavePrices(batch) ==
    /\ bulk.pc = "idle"
    /\ started < MaxOps
    /\ started' = started + 1
    /\ bulk' = IF ~mongoReady
               THEN [IdleBulk EXCEPT !.result = "empty"]
               ELSE [pc |-> "rows", rows |-> batch, inserted |-> 0, result |-> "none"]
    /\ UNCHANGED <<now, redisConnected, cache, mongoReady, prices, req, vin, vout, regVars, workVars>>

\* insertMany, one row: a duplicate key is recorded as a write error and the rest goes on;
\* a lost connection fails the whole call
InsertRow ==
    LET res == InsertOne(prices, PriceDoc(Head(bulk.rows)))
        n == bulk.inserted + (IF res.ok THEN 1 ELSE 0)
    IN /\ bulk.pc = "rows"
       /\ IF ~mongoReady
          THEN /\ bulk' = [IdleBulk EXCEPT !.result = "threw", !.inserted = bulk.inserted]
               /\ prices' = prices
          ELSE /\ prices' = res.coll
               /\ bulk' = IF Tail(bulk.rows) = <<>>
                          THEN [IdleBulk EXCEPT !.result = "returned", !.inserted = n]
                          ELSE [bulk EXCEPT !.rows = Tail(bulk.rows), !.inserted = n]
       /\ UNCHANGED <<now, redisConnected, cache, mongoReady, req, started, vin, vout, regVars, workVars>>

\* ------------------------------------------------------------ environment

\* the 'disconnect' / 'connect' events of the Redis client
RedisDisconnect ==
    /\ redisConnected
    /\ started < MaxOps
    /\ started' = started + 1
    /\ redisConnected' = FALSE
    /\ UNCHANGED <<now, cache, mongoReady, prices, req, bulk, vin, vout, regVars, workVars>>

RedisConnect ==
    /\ ~redisConnected
    /\ redisConnected' = TRUE
    /\ UNCHANGED <<now, cache, mongoReady, prices, req, bulk, started, vin, vout, regVars, workVars>>

\* the 'disconnected' / 'reconnected' events of the mongoose connection
MongoDisconnected ==
    /\ mongoReady
    /\ started < MaxOps
    /\ started' = started + 1
    /\ mongoReady' = FALSE
    /\ UNCHANGED <<now, redisConnected, cache, prices, req, bulk, vin, vout, regVars, workVars>>

MongoReconnected ==
    /\ ~mongoReady
    /\ mongoReady' = TRUE
    /\ UNCHANGED <<now, redisConnected, cache, prices, req, bulk, started, vin, vout, regVars, workVars>>

Next ==
    \/ \E r \in Slots, request \in Requests : Receive(r, request.method, request.params)
    \/ \E r \in Slots : CacheGet(r)
    \/ \E r \in Slots : FindPrice(r)
    \/ \E r \in Slots : FetchUpstream(r)
    \/ \E r \in Slots : SaveAlchemy(r)
    \/ \E r \in Slots : Interpolate(r)
    \/ \E r \in Slots : SaveInterpolated(r)
    \/ \E r \in Slots : Close(r)
    \/ \E batch \in BulkBatches : SavePrices(batch)
    \/ InsertRow
    \/ RedisDisconnect
    \/ RedisConnect
    \/ MongoDisconnected
    \/ MongoReconnected

Spec == Init /\ [][Next]_vars

\* one request at a time, and connections change only between requests
Quiet == bulk.pc = "idle" /\ \A r \in Slots : req[r].pc = "idle"

SeqNext ==
    \/ Quiet /\ \E r \in Slots, request \in Requests : Receive(r, request.method, request.params)
    \/ \E r \in Slots : CacheGet(r)
    \/ \E r \in Slots : FindPrice(r)
    \/ \E r \in Slots : FetchUpstream(r)
    \/ \E r \in Slots : SaveAlchemy(r)
    \/ \E r \in Slots : Interpolate(r)
    \/ \E r \in Slots : SaveInterpolated(r)
    \/ \E r \in Slots : Close(r)
    \/ Quiet /\ \E batch \in BulkBatches : SavePrices(batch)
    \/ InsertRow
    \/ Quiet /\ RedisDisconnect
    \/ Quiet /\ RedisConnect
    \/ Quiet /\ MongoDisconnected
    \/ Quiet /\ MongoReconnected

SpecSeq == Init /\ [][SeqNext]_vars

\* back-to-back requests: a request is issued once every earlier response has been sent,
\* the earlier responses stay with the client, and the cache connection stays up
Answered == bulk.pc = "idle" /\ \A r \in Slots : req[r].pc \in {"idle", "done"}

BackToBackNext ==
    \/ Answered /\ \E r \in Slots, request \in Requests : Receive(r, request.method, request.params)
    \/ \E r \in Slots : CacheGet(r)
    \/ \E r \in Slots : FindPrice(r)
    \/ \E r \in Slots : FetchUpstream(r)
    \/ \E r \in Slots : SaveAlchemy(r)
    \/ \E r \in Slots : Interpolate(r)
    \/ \E r \in Slots : SaveInterpolated(r)
    \/ Answered /\ MongoDisconnected
    \/ Answered /\ MongoReconnected

\* the collection may also already hold the point of the requested second
ResolvedPrices ==
    SeedPrices \cup { [token |-> ETH, network |-> base, date |-> Ts(2000), timestamp |-> 2,
                       price |-> 150, source |-> "alchemy"] }

InitBackToBack ==
    /\ RegistryAtStart
    /\ WorkerAtStart
    /\ now = BootMs
    /\ redisConnected = TRUE
    /\ cache = {}
    /\ mongoReady = TRUE
    /\ prices \in {{}, SeedPrices, ResolvedPrices}
    /\ req = [r \in Slots |-> IdleReq]
    /\ bulk = IdleBulk
    /\ started = 0
    /\ vin = NoInput
    /\ vout = Pending

SpecBackToBack == InitBackToBack /\ [][BackToBackNext]_vars

\* ------------------------------------------------- validation on its own

Hex(n) == [i \in 1..n |-> IF i % 2 = 1 THEN "a" ELSE "9"]

\* tokens of every shape the validators tell apart
WideTokens ==
    { ETH, eth, <<"E">>, <<"0", "x">>, <<"0", "x", "a", "B">>, <<"0", "x">> \o Hex(9),
      <<"0", "x">> \o Hex(40), <<"0", "x">> \o Hex(41), <<"0", "X">> \o Hex(40),
      <<"0", "x", "g", "1">>, <<"0", "x">> \o Rep("g", 9), Rep("A", 10), Rep("A", 11),
      <<"E", "T", "-", "H">>, <<>>, Undefined }
WideNetworks == {ethereum, base, Base, <<"b", "s", "c">>, Undefined}
WideTimestamps == {Ts(2000), Ts(BootMs), Ts(BootMs + 1), TextTs(2000), BadTs, NoTimestamp}

ValidationInputs ==
    [method : {"GET", "POST"},
     params : [token : WideTokens, network : WideNetworks, timestamp : WideTimestamps]]

InitValidate ==
    /\ RegistryAtStart
    /\ WorkerAtStart
    /\ now = BootMs
    /\ redisConnected = TRUE
    /\ cache = {}
    /\ mongoReady = TRUE
    /\ prices = {}
    /\ req = [r \in Slots |-> IdleReq]
    /\ bulk = IdleBulk
    /\ started = 0
    /\ vin \in ValidationInputs
    /\ vout = Pending

\* the validation chain of the route and the checks of getPrice, on an empty cache
Validate ==
    /\ vout = Pending
    /\ vout' = getPriceEntry(vin.method, vin.params,
                             ValidationErrors(vin.method, vin.params, now), now).check
    /\ UNCHANGED <<now, redisConnected, cache, mongoReady, prices, req, bulk, started, vin,
                 regVars, workVars>>

SpecValidate == InitValidate /\ [][Validate]_vars

\* ============================================================ job registry

\* schedule requests received and queue connections lost in one behaviour
MaxSchedOps == 4

USDC == <<"U", "S", "D", "C">>
usdc == <<"u", "s", "d", "c">>
Ethereum == <<"E", "t", "h", "e", "r", "e", "u", "m">>

\* the bodies sent to POST /schedule
ScheduleBodies ==
    { [token |-> t, network |-> n, enabled |-> e] :
        t \in {USDC, usdc}, n \in {ethereum, Ethereum}, e \in BOOLEAN }

\* validateScheduleRequest: TRUE when validationResult(req) is not empty
validateScheduleRequest(body) ==
    \/ ~MatchesAlNumPlus(body.token) \/ Len(body.token) > 10
    \/ body.network \notin {ethereum, polygon, arbitrum, optimism, base}

\* the object stored under a job id
JobData(id, token, network, enabled, clock) ==
    [id |-> id, token |-> token, network |-> network, enabled |-> enabled,
     createdAt |-> toISOString(clock), lastRun |-> NoTimestamp]

\* scheduledJobs.get(jobId): the object, or Null
MapGet(jobId) ==
    IF \E i \in DOMAIN scheduledJobs : scheduledJobs[i] = jobId THEN jobObjs[jobId] ELSE Null

\* scheduledJobs.set(jobId, job): a key already present keeps its place
MapSet(jobId) ==
    IF \E i \in DOMAIN scheduledJobs : scheduledJobs[i] = jobId
    THEN scheduledJobs ELSE Append(scheduledJobs, jobId)

\* scheduledJobs.delete(jobId)
MapDelete(jobId) == SelectSeq(scheduledJobs, LAMBDA k : k # jobId)

\* findExistingJob: the first entry, in insertion order, with the same token and network
\* up to letter case; 0 stands for null
findExistingJob(token, network) ==
    LET hits == {i \in DOMAIN scheduledJobs :
                    /\ toLowerCase(jobObjs[scheduledJobs[i]].token) = toLowerCase(token)
                    /\ toLowerCase(jobObjs[scheduledJobs[i]].network) = toLowerCase(network)}
    IN IF hits = {} THEN 0
       ELSE scheduledJobs[CHOOSE i \in hits : \A j \in hits : i <= j]

\* requestId: jobId
RequestId(jobId) == [prefix |-> "", jobId |-> jobId, at |-> 0]
\* requestId: `manual-${jobId}-${Date.now()}`
ManualRequestId(jobId, clock) == [prefix |-> "manual", jobId |-> jobId, at |-> clock]

\* the job data without the case normalisation
QueueData_Raw(job, requestId) ==
    [token |-> job.token, network |-> job.network, requestId |-> requestId]

\* the job data the handlers pass to addPriceHistoryJob
QueueData(job, requestId) ==
    [token |-> toUpperCase(job.token), network |-> toLowerCase(job.network),
     requestId |-> requestId]

\* a retry inside the service that adds the job a second time
addPriceHistoryJob_Twice(q, enabled, redisUp, jobData) ==
    IF ~enabled THEN [result |-> Null, queue |-> q]
    ELSE IF redisUp
         THEN [result |-> [jobId |-> Len(q) + 2, status |-> "queued"],
               queue |-> Append(Append(q, jobData), jobData)]
         ELSE [result |-> Null, queue |-> q]

\* BullMQService.addPriceHistoryJob: the value returned and the queue afterwards;
\* a rejected queue.add is caught and becomes null
addPriceHistoryJob(q, enabled, redisUp, jobData) ==
    IF ~enabled THEN [result |-> Null, queue |-> q]
    ELSE IF redisUp
         THEN [result |-> [jobId |-> Len(q) + 1, status |-> "queued"],
               queue |-> Append(q, jobData)]
         ELSE [result |-> Null, queue |-> q]

\* a response of a schedule handler
Response(op, id, status, error) ==
    [op |-> op, id |-> id, status |-> status, error |-> error, existingJobId |-> 0,
     asked |-> Null, queued |-> FALSE, job |-> Null, jobs |-> <<>>]

\* the request arrives: the clock moves and one event is spent
Arrive(op, id, body) ==
    /\ started < MaxSchedOps
    /\ started' = started + 1
    /\ now' = now + ArrivalGapMs
    /\ sreq' = [n |-> started + 1, op |-> op, id |-> id, body |-> body]

priceVars == <<redisConnected, cache, mongoReady, prices, req, bulk, vin, vout>>

\* POST /schedule up to its response or to its await
ScheduleJob(body) ==
    LET jobId == Len(jobObjs) + 1
        existingJobId == findExistingJob(body.token, body.network)
        jobData == JobData(jobId, body.token, body.network, body.enabled, now')
    IN /\ Arrive("create", 0, body)
       /\ IF validateScheduleRequest(body)
          THEN /\ sres' = Response("create", 0, 400, "Validation failed")
               /\ UNCHANGED <<scheduledJobs, jobObjs, suspended>>
          ELSE IF existingJobId # 0
          THEN /\ sres' = [Response("create", 0, 409, "Job already exists")
                             EXCEPT !.existingJobId = existingJobId]
               /\ UNCHANGED <<scheduledJobs, jobObjs, suspended>>
          ELSE /\ jobObjs' = Append(jobObjs, jobData)
               /\ scheduledJobs' = Append(scheduledJobs, jobId)
               /\ IF body.enabled /\ bullEnabled
                  THEN /\ suspended' = suspended \cup {[op |-> "create", id |-> jobId, n |-> started']}
                       /\ UNCHANGED sres
                  ELSE /\ sres' = [Response("create", jobId, 200, "")
                                     EXCEPT !.asked = IF body.enabled
                                                      THEN QueueData(jobData, RequestId(jobId))
                                                      ELSE Null]
                       /\ UNCHANGED suspended
       /\ UNCHANGED <<queue, bullEnabled, bullRedisUp, priceVars, workVars>>

\* scheduleJob after `await bullMQService.addPriceHistoryJob`
ScheduleJobResume(h) ==
    LET added == addPriceHistoryJob(queue, bullEnabled, bullRedisUp,
                                    QueueData(jobObjs[h.id], RequestId(h.id)))
    IN /\ h \in suspended /\ h.op = "create"
       /\ suspended' = suspended \ {h}
       /\ queue' = added.queue
       /\ sres' = [Response("create", h.id, 200, "")
                     EXCEPT !.asked = QueueData(jobObjs[h.id], RequestId(h.id)),
                            !.queued = added.result # Null]
       /\ UNCHANGED <<now, started, sreq, scheduledJobs, jobObjs, bullEnabled, bullRedisUp,
                      priceVars, workVars>>

\* GET /schedule
GetScheduledJobs ==
    /\ Arrive("list", 0, Null)
    /\ sres' = [Response("list", 0, 200, "") EXCEPT !.jobs = scheduledJobs]
    /\ UNCHANGED <<scheduledJobs, jobObjs, suspended, queue, bullEnabled, bullRedisUp,
                   priceVars, workVars>>

\* GET /schedule/:jobId up to its response or to `await bullMQService.getJobStatus`
GetJobDetails(jobId) ==
    /\ Arrive("get", jobId, Null)
    /\ IF MapGet(jobId) = Null
       THEN /\ sres' = Response("get", jobId, 404, "Job not found")
            /\ UNCHANGED suspended
       ELSE IF bullEnabled
       THEN /\ suspended' = suspended \cup {[op |-> "get", id |-> jobId, n |-> started']}
            /\ UNCHANGED sres
       ELSE /\ sres' = [Response("get", jobId, 200, "") EXCEPT !.job = jobObjs[jobId]]
            /\ UNCHANGED suspended
    /\ UNCHANGED <<scheduledJobs, jobObjs, queue, bullEnabled, bullRedisUp, priceVars, workVars>>

\* getJobDetails after its await: the object read before the await is sent
GetJobDetailsResume(h) ==
    /\ h \in suspended /\ h.op = "get"
    /\ suspended' = suspended \ {h}
    /\ sres' = [Response("get", h.id, 200, "") EXCEPT !.job = jobObjs[h.id]]
    /\ UNCHANGED <<now, started, sreq, scheduledJobs, jobObjs, queue, bullEnabled, bullRedisUp,
                   priceVars, workVars>>

\* PUT /schedule/:jobId up to its response or to its await
UpdateJob(jobId, enabled) ==
    /\ Arrive("update", jobId, [enabled |-> enabled])
    /\ IF MapGet(jobId) = Null
       THEN /\ sres' = Response("update", jobId, 404, "Job not found")
            /\ UNCHANGED <<scheduledJobs, jobObjs, suspended>>
       ELSE /\ jobObjs' = [jobObjs EXCEPT ![jobId].enabled = enabled,
                                          ![jobId].lastRun = toISOString(now')]
            /\ scheduledJobs' = MapSet(jobId)
            /\ IF enabled /\ bullEnabled
               THEN /\ suspended' = suspended \cup {[op |-> "update", id |-> jobId, n |-> started']}
                    /\ UNCHANGED sres
               ELSE /\ sres' = [Response("update", jobId, 200, "")
                                  EXCEPT !.job = jobObjs'[jobId],
                                         !.asked = IF enabled
                                                   THEN QueueData(jobObjs[jobId], RequestId(jobId))
                                                   ELSE Null]
                    /\ UNCHANGED suspended
    /\ UNCHANGED <<queue, bullEnabled, bullRedisUp, priceVars, workVars>>

\* updateJob after `await bullMQService.addPriceHistoryJob`
UpdateJobResume(h) ==
    LET added == addPriceHistoryJob(queue, bullEnabled, bullRedisUp,
                                    QueueData(jobObjs[h.id], RequestId(h.id)))
    IN /\ h \in suspended /\ h.op = "update"
       /\ suspended' = suspended \ {h}
       /\ queue' = added.queue
       /\ sres' = [Response("update", h.id, 200, "")
                     EXCEPT !.job = jobObjs[h.id],
                            !.asked = QueueData(jobObjs[h.id], RequestId(h.id)),
                            !.queued = added.result # Null]
       /\ UNCHANGED <<now, started, sreq, scheduledJobs, jobObjs, bullEnabled, bullRedisUp,
                      priceVars, workVars>>

\* DELETE /schedule/:jobId
DeleteJob(jobId) ==
    /\ Arrive("delete", jobId, Null)
    /\ IF MapGet(jobId) = Null
       THEN /\ sres' = Response("delete", jobId, 404, "Job not found")
            /\ UNCHANGED scheduledJobs
       ELSE /\ scheduledJobs' = MapDelete(jobId)
            /\ sres' = Response("delete", jobId, 200, "")
    /\ UNCHANGED <<jobObjs, suspended, queue, bullEnabled, bullRedisUp, priceVars, workVars>>

\* a null queue result taken for a queued job
RunJobFailed_AsSuccess(jobId, clock) ==
    [Response("run", jobId, 200, "")
       EXCEPT !.asked = QueueData(jobObjs[jobId], ManualRequestId(jobId, clock))]

\* the answer of runJob when addPriceHistoryJob gave null
RunJobFailed(jobId, clock) ==
    [Response("run", jobId, 500, "Failed to queue job")
       EXCEPT !.asked = QueueData(jobObjs[jobId], ManualRequestId(jobId, clock))]

\* POST /schedule/:jobId/run up to its response or to its await
RunJob(jobId) ==
    /\ Arrive("run", jobId, Null)
    /\ IF MapGet(jobId) = Null
       THEN /\ sres' = Response("run", jobId, 404, "Job not found")
            /\ UNCHANGED suspended
       ELSE IF ~MapGet(jobId).enabled
       THEN /\ sres' = Response("run", jobId, 400, "Job is disabled")
            /\ UNCHANGED suspended
       ELSE IF bullEnabled
       THEN /\ suspended' = suspended \cup {[op |-> "run", id |-> jobId, n |-> started']}
            /\ UNCHANGED sres
       ELSE /\ sres' = RunJobFailed(jobId, now')
            /\ UNCHANGED suspended
    /\ UNCHANGED <<scheduledJobs, jobObjs, queue, bullEnabled, bullRedisUp, priceVars, workVars>>

\* runJob after `await bullMQService.addPriceHistoryJob`: on success the object read
\* before the await gets its lastRun and is put into the Map
RunJobResume(h) ==
    LET added == addPriceHistoryJob(queue, bullEnabled, bullRedisUp,
                                    QueueData(jobObjs[h.id], ManualRequestId(h.id, now)))
    IN /\ h \in suspended /\ h.op = "run"
       /\ suspended' = suspended \ {h}
       /\ queue' = added.queue
       /\ IF added.result # Null
          THEN /\ jobObjs' = [jobObjs EXCEPT ![h.id].lastRun = toISOString(now)]
               /\ scheduledJobs' = MapSet(h.id)
               /\ sres' = [Response("run", h.id, 200, "")
                             EXCEPT !.asked = QueueData(jobObjs[h.id],
                                                        ManualRequestId(h.id, now)),
                                    !.queued = TRUE]
          ELSE /\ sres' = RunJobFailed(h.id, now)
               /\ UNCHANGED <<jobObjs, scheduledJobs>>
       /\ UNCHANGED <<now, started, sreq, bullEnabled, bullRedisUp, priceVars, workVars>>

\* the queue's Redis connection closes
BullRedisClose ==
    /\ bullEnabled /\ bullRedisUp
    /\ started < MaxSchedOps
    /\ started' = started + 1
    /\ bullRedisUp' = FALSE
    /\ UNCHANGED <<now, scheduledJobs, jobObjs, suspended, queue, bullEnabled, sreq, sres,
                   priceVars, workVars>>

\* the queue's Redis connection comes back
BullRedisConnect ==
    /\ bullEnabled /\ ~bullRedisUp
    /\ bullRedisUp' = TRUE
    /\ UNCHANGED <<now, started, sreq, scheduledJobs, jobObjs, suspended, queue, bullEnabled, sres,
                   priceVars, workVars>>

\* the service starts with or without BULLMQ_REDIS_URL
InitRegistry ==
    /\ now = BootMs
    /\ redisConnected = TRUE
    /\ cache = {}
    /\ mongoReady = TRUE
    /\ prices = {}
    /\ req = [r \in Slots |-> IdleReq]
    /\ bulk = IdleBulk
    /\ started = 0
    /\ vin = NoInput
    /\ vout = Pending
    /\ scheduledJobs = <<>>
    /\ jobObjs = <<>>
    /\ suspended = {}
    /\ queue = <<>>
    /\ bullEnabled \in BOOLEAN
    /\ bullRedisUp = TRUE
    /\ sreq = NoRequest
    /\ sres = NoResponse
    /\ WorkerAtStart

NextRegistry ==
    \/ \E body \in ScheduleBodies : ScheduleJob(body)
    \/ GetScheduledJobs
    \/ \E jobId \in DOMAIN jobObjs : GetJobDetails(jobId)
    \/ \E jobId \in DOMAIN jobObjs, enabled \in BOOLEAN : UpdateJob(jobId, enabled)
    \/ \E jobId \in DOMAIN jobObjs : DeleteJob(jobId)
    \/ \E jobId \in DOMAIN jobObjs : RunJob(jobId)
    \/ \E h \in suspended : ScheduleJobResume(h)
    \/ \E h \in suspended : GetJobDetailsResume(h)
    \/ \E h \in suspended : UpdateJobResume(h)
    \/ \E h \in suspended : RunJobResume(h)
    \/ BullRedisClose
    \/ BullRedisConnect

SpecRegistry == InitRegistry /\ [][NextRegistry]_vars

\* ====================================================== queue and backfill worker

\* one day in milliseconds
DayMs == 24 * 60 * 60 * 1000

\* a Date of the worker: the UTC day since the epoch and the milliseconds within it
\* (365 days of milliseconds do not fit the integers of the model checker)
Wide(day, ms) == [kind |-> "iso", ms |-> ms, day |-> day]
\* new Date(Date.now()) for the clock of the model
WideNow(clock) == Wide(clock \div DayMs, clock % DayMs)
\* Math.floor(date.getTime() / 1000)
Seconds(w) == w.day * (DayMs \div 1000) + w.ms \div 1000
\* date.toISOString().split('T')[0] of a stored date, whoever wrote it
DateString(date) == IF "day" \in DOMAIN date THEN date.day ELSE date.ms \div DayMs
\* n <= date.getTime() and n >= date.getTime(), for an integer n
LeqWide(n, w) == n \div DayMs < w.day \/ (n \div DayMs = w.day /\ n % DayMs <= w.ms)
GeqWide(n, w) == n \div DayMs > w.day \/ (n \div DayMs = w.day /\ n % DayMs >= w.ms)

\* new Date(Date.now() - 365 * 24 * 60 * 60 * 1000)
FallbackStart(clock) == Wide(clock \div DayMs - 365, clock % DayMs)

\* tokenUtils.generateDailyTimestamps: the midnights from the day of start to the day of end
generateDailyTimestamps(startDate, endDate) ==
    [i \in 1..(endDate.day - startDate.day + 1) |-> Wide(startDate.day + i - 1, 0)]

\* MongoDBService.getPriceHistory: Price.find with no isReady() guard and no catch; on a
\* lost connection the buffered query is rejected
getPriceHistory(coll, ready, token, network, startDate, endDate) ==
    IF ~ready THEN [outcome |-> "threw", rows |-> {}]
    ELSE [outcome |-> "returned",
          rows |-> {d \in coll : /\ d.token = toUpperCase(token)
                                 /\ d.network = toLowerCase(network)
                                 /\ d.timestamp >= Seconds(startDate)
                                 /\ d.timestamp <= Seconds(endDate)}]

\* the history of the market-data provider: one price for every day it has data for
HistoricalPrice == 100
getHistoricalPrice(gaps, token, network, timestamp) ==
    IF network \notin getSupportedNetworks \/ toUpperCase(token) \notin tokenMap
         \/ timestamp.day \in gaps
    THEN Null
    ELSE [price |-> HistoricalPrice, timestamp |-> timestamp]

\* a batch that keeps no error for the timestamps without a price
FetchAll_NoErrors(gaps, token, network, missing) ==
    LET got == SelectSeq(missing,
                         LAMBDA ts : getHistoricalPrice(gaps, token, network, ts) # Null)
    IN [fetched |-> [i \in DOMAIN got |->
                       [date |-> got[i],
                        price |-> getHistoricalPrice(gaps, token, network, got[i]).price,
                        confidence |-> FullConfidence]],
        errors |-> <<>>]

\* the inner loop of worker step 5: the timestamps of one batch are fetched one by one
FetchAll(gaps, token, network, missing) ==
    LET got == SelectSeq(missing,
                         LAMBDA ts : getHistoricalPrice(gaps, token, network, ts) # Null)
    IN [fetched |-> [i \in DOMAIN got |->
                       [date |-> got[i],
                        price |-> getHistoricalPrice(gaps, token, network, got[i]).price,
                        confidence |-> FullConfidence]],
        errors |-> SelectSeq(missing,
                             LAMBDA ts : getHistoricalPrice(gaps, token, network, ts) = Null)]

\* the earliest and the latest timestamp stored for a token on a network
StoredSpan(coll, token, network) ==
    LET tss == {d.timestamp : d \in {e \in coll : /\ e.token = toUpperCase(token)
                                                  /\ e.network = toLowerCase(network)}}
    IN IF tss = {} THEN Null
       ELSE [kind |-> "span",
             lo |-> CHOOSE t \in tss : \A u \in tss : t <= u,
             hi |-> CHOOSE t \in tss : \A u \in tss : u <= t]

\* interpolatePrice called with milliseconds, as the worker does, against a store keyed
\* by seconds: without a point on each side of the instant there is no result
interpolatePriceMs(coll, ready, span, token, network, w) ==
    IF ~ready \/ span = Null THEN Null
    ELSE IF ~LeqWide(span.lo, w) \/ ~GeqWide(span.hi, w) THEN Null
    ELSE interpolatePrice(coll, ready, token, network, w.day * DayMs + w.ms)

\* batchInterpolatePrice: one result, or Null, for each timestamp asked for, in order
batchInterpolatePrice(coll, ready, token, network, asked) ==
    LET span == StoredSpan(coll, token, network)
    IN [i \in DOMAIN asked |-> interpolatePriceMs(coll, ready, span, token, network, asked[i])]

\* interpolatedResults.filter(result => result !== null).map((result, index) => ...):
\* the k results that are not null get the dates of the first k timestamps asked for
interpolatedPrices(missingTimestamps, interpolatedResults) ==
    LET kept == SelectSeq(interpolatedResults, LAMBDA result : result # Null)
    IN [index \in DOMAIN kept |->
          [date |-> missingTimestamps[index], price |-> kept[index].price,
           confidence |-> kept[index].confidence]]

\* worker step 6: the timestamps without a fetched price, interpolated in one batch
Step6(coll, ready, token, network, timestamps, fetched) ==
    LET asked == SelectSeq(timestamps,
                           LAMBDA ts : ~\E i \in DOMAIN fetched : fetched[i].date = ts)
    IN interpolatedPrices(asked, batchInterpolatePrice(coll, ready, token, network, asked))

\* a label taken from where the price came from, not from its confidence
SourceLabel_AlwaysAlchemy(confidence) == "alchemy"
\* worker step 7: confidence === 1.0 ? 'alchemy' : 'interpolated'
SourceLabel(confidence) == IF confidence = FullConfidence THEN "alchemy" ELSE "interpolated"

\* worker step 7 and savePriceHistory: the record handed to savePrices
PriceRecord(token, network, fp) ==
    [token |-> toUpperCase(token), network |-> toLowerCase(network),
     date |-> fp.date, timestamp |-> Seconds(fp.date), price |-> fp.price,
     confidence |-> fp.confidence, source |-> SourceLabel(fp.confidence)]

\* a tenth of the days, rounded down, with no least size
calculateOptimalBatchSize_Tenth(totalDays) == totalDays \div 10

\* tokenUtils.calculateOptimalBatchSize with its defaults (at most 100, at least 10)
calculateOptimalBatchSize(totalDays) ==
    IF totalDays <= 10 THEN totalDays
    ELSE IF totalDays <= 100 THEN CeilDiv(totalDays, 2)
    ELSE LET tenth == CeilDiv(totalDays, 10)
             capped == IF tenth < 100 THEN tenth ELSE 100
         IN IF capped > 10 THEN capped ELSE 10

\* a progress that forgets the 50 the fetch starts from
BatchProgress_FromZero(i, batchSize, total) == ((i + batchSize) * 30) \div total
\* the progress reported after the batch starting at i:
\* Math.min(50 + Math.floor((i + batchSize) / total * 30), 80)
BatchProgress(i, batchSize, total) ==
    LET progress == 50 + ((i + batchSize) * 30) \div total
    IN IF progress < 80 THEN progress ELSE 80

\* the key of the unique index
KeyOf(d) == <<d.token, d.network, d.timestamp>>

\* Price.insertMany(prices, {ordered: false}): every row is tried; a row is skipped when
\* the index holds its key already, from the collection or from an earlier row
insertMany(coll, rows) ==
    LET docs == [i \in DOMAIN rows |-> PriceDoc(rows[i])]
        taken == {KeyOf(d) : d \in coll}
        allowed == {i \in DOMAIN rows : KeyOf(docs[i]) \notin taken}
        inserted == IF Cardinality({KeyOf(docs[i]) : i \in allowed}) = Cardinality(allowed)
                    THEN allowed
                    ELSE {i \in allowed :
                            \A j \in allowed : j < i => KeyOf(docs[j]) # KeyOf(docs[i])}
    IN [coll |-> coll \cup {docs[i] : i \in inserted},
        insertedCount |-> Cardinality(inserted)]

\* MongoDBService.savePrices as one call: [] when not ready
savePrices(coll, ready, rows) ==
    IF ~ready THEN [coll |-> coll, insertedCount |-> 0] ELSE insertMany(coll, rows)

\* ------------------------------------------------------------ queue options

\* defaultJobOptions of the queue
attempts == 3
delay == 5000

\* a backoff that waits the same time before every retry
Backoff_Fixed(attemptsMade) == delay
\* backoff {type: 'exponential', delay}: the wait after the attemptsMade-th failure
Backoff(attemptsMade) == 2 ^ (attemptsMade - 1) * delay

\* a job the worker has taken from the queue
NewJob(data) ==
    [state |-> "active", attemptsMade |-> 0, finished |-> <<>>, waits |-> <<>>,
     data |-> data, returnvalue |-> Null, inserted |-> 0, progress |-> <<>>,
     saved |-> FALSE]

\* the processor returned: the job is completed with its return value
moveToCompleted(job, returnvalue, inserted, progress, saved) ==
    [job EXCEPT !.state = "completed", !.attemptsMade = @ + 1,
                !.finished = Append(@, "returned"), !.returnvalue = returnvalue,
                !.inserted = inserted, !.progress = progress, !.saved = saved]

\* the processor threw: the job waits for its retry, or is failed once the attempts
\* are used up
moveToFailed(job, progress) ==
    IF job.attemptsMade + 1 < attempts
    THEN [job EXCEPT !.state = "delayed", !.attemptsMade = @ + 1,
                     !.finished = Append(@, "threw"), !.progress = progress,
                     !.waits = Append(@, Backoff(job.attemptsMade + 1))]
    ELSE [job EXCEPT !.state = "failed", !.attemptsMade = @ + 1,
                     !.finished = Append(@, "threw"), !.progress = progress]

\* ------------------------------------------------------------------- worker

MaxBackfillOps == 2

\* the clock when the worker's process is up: noon of the fourth day of the epoch
BackfillClock == 3 * DayMs + DayMs \div 2 + BootMs

\* the dates a producer passes, NoTimestamp for an omitted one
BackfillJob(startDate, endDate) ==
    [token |-> ETH, network |-> ethereum, startDate |-> startDate, endDate |-> endDate,
     requestId |-> RequestId(1)]
BackfillJobs ==
    {BackfillJob(NoTimestamp, NoTimestamp), BackfillJob(Wide(1, 0), Wide(3, 0)),
     BackfillJob(Wide(1, DayMs \div 2), Wide(3, 0))}

\* what detectTokenCreationDate answers: a creation date, or null (no transfers, or
\* the provider refused the call)
CreationDates == {Null, Wide(2, DayMs \div 4)}

\* the days upstream may have no price for
GapChoices == {{}, {2}}

\* processPriceHistoryJob steps 1 and 2: the range and its daily timestamps
StartAttempt(i, data, creationDate, clock) ==
    LET actualStartDate == IF data.startDate # NoTimestamp THEN data.startDate
                           ELSE IF creationDate # Null THEN creationDate
                           ELSE FallbackStart(clock)
        actualEndDate == IF data.endDate # NoTimestamp THEN data.endDate ELSE WideNow(clock)
    IN [pc |-> "history", job |-> i, token |-> data.token, network |-> data.network,
        actualStartDate |-> actualStartDate, actualEndDate |-> actualEndDate,
        timestamps |-> generateDailyTimestamps(actualStartDate, actualEndDate),
        existingDates |-> {}, missingTimestamps |-> <<>>, batchSize |-> 0, i |-> 0,
        fetchedPrices |-> <<>>, errors |-> <<>>, inserted |-> 0, saved |-> FALSE,
        progress |-> <<10, 20, 30>>]

backVars == <<redisConnected, cache, req, bulk, vin, vout, scheduledJobs, jobObjs, suspended,
              bullEnabled, bullRedisUp, sreq, sres, upGaps>>

\* a producer adds a backfill job to the queue
AddBackfillJob(data) ==
    /\ started < MaxBackfillOps
    /\ started' = started + 1
    /\ now' = now + ArrivalGapMs
    /\ queue' = addPriceHistoryJob(queue, bullEnabled, bullRedisUp, data).queue
    /\ UNCHANGED <<mongoReady, prices, bjob, wk, backVars>>

\* the worker takes the oldest waiting job and starts its first attempt
WorkerTake(creationDate) ==
    /\ wk = IdleWorker
    /\ queue # <<>>
    /\ \A i \in DOMAIN bjob : bjob[i].state \in {"completed", "failed"}
    /\ bjob' = Append(bjob, NewJob(Head(queue)))
    /\ queue' = Tail(queue)
    /\ wk' = StartAttempt(Len(bjob) + 1, Head(queue), creationDate, now)
    /\ UNCHANGED <<now, mongoReady, prices, started, backVars>>

\* the backoff of a delayed job is over: the worker starts the next attempt
WorkerRetry(i, creationDate) ==
    /\ wk = IdleWorker
    /\ bjob[i].state = "delayed"
    /\ now' = now + bjob[i].waits[Len(bjob[i].waits)]
    /\ bjob' = [bjob EXCEPT ![i].state = "active"]
    /\ wk' = StartAttempt(i, bjob[i].data, creationDate, now')
    /\ UNCHANGED <<mongoReady, prices, started, queue, backVars>>

\* step 3: the stored history of the range; a rejected query ends the attempt in the
\* catch block, which throws
GetHistory ==
    /\ wk.pc = "history"
    /\ LET r == getPriceHistory(prices, mongoReady, wk.token, wk.network,
                                wk.actualStartDate, wk.actualEndDate)
       IN IF r.outcome = "threw"
          THEN /\ bjob' = [bjob EXCEPT ![wk.job] = moveToFailed(@, wk.progress)]
               /\ wk' = IdleWorker
          ELSE /\ wk' = [wk EXCEPT !.pc = "fetch",
                                   !.existingDates = {DateString(p.date) : p \in r.rows},
                                   !.progress = Append(@, 40)]
               /\ UNCHANGED bjob
    /\ UNCHANGED <<now, mongoReady, prices, started, queue, backVars>>

\* step 4: the days not stored yet, and the batch size of step 5
FetchMissing ==
    /\ wk.pc = "fetch"
    /\ LET missingTimestamps == SelectSeq(wk.timestamps,
                                          LAMBDA ts : DateString(ts) \notin wk.existingDates)
       IN wk' = [wk EXCEPT !.pc = "batch",
                           !.missingTimestamps = missingTimestamps,
                           !.batchSize = calculateOptimalBatchSize(Len(missingTimestamps)),
                           !.i = 0,
                           !.progress = Append(@, 50)]
    /\ UNCHANGED <<now, mongoReady, prices, started, queue, bjob, backVars>>

\* step 5: one turn of the batch loop, which fetches the batch starting at i and reports
\* its progress, or leaves the loop and reports 80
FetchBatch ==
    /\ wk.pc = "batch"
    /\ LET total == Len(wk.missingTimestamps)
           last == IF wk.i + wk.batchSize < total THEN wk.i + wk.batchSize ELSE total
           r == FetchAll(upGaps, wk.token, wk.network,
                         SubSeq(wk.missingTimestamps, wk.i + 1, last))
       IN IF wk.i < total
          THEN wk' = [wk EXCEPT !.fetchedPrices = @ \o r.fetched,
                                !.errors = @ \o r.errors,
                                !.i = @ + wk.batchSize,
                                !.progress = Append(@, BatchProgress(wk.i, wk.batchSize, total))]
          ELSE wk' = [wk EXCEPT !.pc = IF Len(wk.errors) > 0 /\ Len(wk.fetchedPrices) > 0
                                       THEN "interpolate" ELSE "save",
                                !.progress = Append(@, 80)]
    /\ UNCHANGED <<now, mongoReady, prices, started, queue, bjob, backVars>>

\* step 6: interpolation for the days still without a price
InterpolateMissing ==
    /\ wk.pc = "interpolate"
    /\ wk' = [wk EXCEPT !.pc = "save",
                        !.fetchedPrices = @ \o Step6(prices, mongoReady, wk.token, wk.network,
                                                     wk.timestamps, wk.fetchedPrices)]
    /\ UNCHANGED <<now, mongoReady, prices, started, queue, bjob, backVars>>

\* progress 90 and step 7: savePriceHistory, whose answer the worker does not look at
SaveHistory ==
    /\ wk.pc = "save"
    /\ LET priceRecords == [i \in DOMAIN wk.fetchedPrices |->
                              PriceRecord(wk.token, wk.network, wk.fetchedPrices[i])]
           r == IF Len(wk.fetchedPrices) > 0 THEN savePrices(prices, mongoReady, priceRecords)
                ELSE [coll |-> prices, insertedCount |-> 0]
       IN /\ prices' = r.coll
          /\ wk' = [wk EXCEPT !.pc = "return", !.inserted = r.insertedCount,
                              !.saved = TRUE, !.progress = Append(@, 90)]
    /\ UNCHANGED <<now, mongoReady, started, queue, bjob, backVars>>

\* the result the attempt returns
JobResult(w) ==
    [token |-> w.token, network |-> w.network, pricesProcessed |-> Len(w.fetchedPrices),
     timeRange |-> [start |-> w.actualStartDate, end |-> w.actualEndDate],
     errors |-> w.errors]

\* progress 100; the attempt returns its result and the job is completed
ReturnResult ==
    /\ wk.pc = "return"
    /\ bjob' = [bjob EXCEPT ![wk.job] = moveToCompleted(@, JobResult(wk), wk.inserted,
                                                        Append(wk.progress, 100), wk.saved)]
    /\ wk' = IdleWorker
    /\ UNCHANGED <<now, mongoReady, prices, started, queue, backVars>>

\* SIGTERM or SIGINT while an attempt runs: gracefulShutdown closes the cache connection
\* and calls process.exit; nothing tells the worker, which ends where it is
ProcessExit ==
    /\ wk.pc \notin {"idle", "exited"}
    /\ wk' = [wk EXCEPT !.pc = "exited"]
    /\ redisConnected' = FALSE
    /\ UNCHANGED <<now, mongoReady, prices, started, queue, bjob, cache, req, bulk, vin, vout,
                   scheduledJobs, jobObjs, suspended, bullEnabled, bullRedisUp, sreq, sres,
                   upGaps>>

InitBackfill ==
    /\ now = BackfillClock
    /\ redisConnected = TRUE
    /\ cache = {}
    /\ mongoReady = TRUE
    /\ prices = {}
    /\ req = [r \in Slots |-> IdleReq]
    /\ bulk = IdleBulk
    /\ started = 0
    /\ vin = NoInput
    /\ vout = Pending
    /\ RegistryAtStart
    /\ bjob = <<>>
    /\ wk = IdleWorker
    /\ upGaps \in GapChoices

NextBackfill ==
    \/ \E data \in BackfillJobs : AddBackfillJob(data)
    \/ \E creationDate \in CreationDates : WorkerTake(creationDate)
    \/ \E i \in DOMAIN bjob, creationDate \in CreationDates : WorkerRetry(i, creationDate)
    \/ GetHistory
    \/ FetchMissing
    \/ FetchBatch
    \/ InterpolateMissing
    \/ SaveHistory
    \/ ReturnResult
    \/ ProcessExit
    \/ MongoDisconnected
    \/ MongoReconnected

SpecBackfill == InitBackfill /\ [][NextBackfill]_vars

\* =========================================== interpolation engine on its own

SecondsPerDay == DayMs \div 1000
\* 2024-01-01T00:00:00.000Z, in seconds since the epoch
Jan1 == 19723 * SecondsPerDay
Jan2 == Jan1 + SecondsPerDay
Jan3 == Jan1 + 2 * SecondsPerDay

\* a document of the collection: the price in cents at the second `ts`
Point(token, ts, price) ==
    [token |-> token, network |-> ethereum,
     date |-> Wide(ts \div SecondsPerDay, (ts % SecondsPerDay) * 1000), timestamp |-> ts,
     price |-> price, source |-> "alchemy"]

\* what the collection holds when the engine is asked: nothing, one point, the pair
\* 2000.00 / 2200.00 two days apart, a point in between, prices of zero, a pair more than
\* seven days apart, pairs three seconds apart, another token's points
EngineStores ==
    { {},
      {Point(ETH, Jan1, 200000)},
      {Point(ETH, Jan3, 220000)},
      {Point(ETH, Jan1, 200000), Point(ETH, Jan3, 220000)},
      {Point(ETH, Jan1, 200000), Point(ETH, Jan2, 150000), Point(ETH, Jan3, 220000)},
      {Point(ETH, Jan1, 0), Point(ETH, Jan3, 0)},
      {Point(ETH, Jan1, 0), Point(ETH, Jan3, 50)},
      {Point(ETH, Jan1, 200000), Point(ETH, Jan1 + 10 * SecondsPerDay, 200100)},
      {Point(ETH, Jan1, 100), Point(ETH, Jan1 + 3, 201)},
      {Point(ETH, Jan1, 201), Point(ETH, Jan1 + 3, 100)},
      {Point(USDC, Jan1, 100), Point(USDC, Jan3, 101)},
      {Point(USDC, Jan1, 100), Point(ETH, Jan2, 150000), Point(USDC, Jan3, 101)} }

\* the seconds the engine is asked about
EngineTargets ==
    {Jan1 - 1, Jan1, Jan1 + 1, Jan1 + 2, Jan1 + 3, Jan2, Jan3, Jan3 + 1,
     Jan1 + 5 * SecondsPerDay}

EngineInput(token, target) == [token |-> token, network |-> ethereum, target |-> target]

InitEngine ==
    /\ RegistryAtStart
    /\ WorkerAtStart
    /\ now = BootMs
    /\ redisConnected = TRUE
    /\ cache = {}
    /\ mongoReady \in BOOLEAN
    /\ prices \in EngineStores
    /\ req = [r \in Slots |-> IdleReq]
    /\ bulk = IdleBulk
    /\ started = 0
    /\ vin \in {EngineInput(ETH, target) : target \in EngineTargets}
    /\ vout = Pending

\* interpolationService.interpolatePrice(token, network, target) resolved
InterpolateAt ==
    /\ vout = Pending
    /\ vout' = interpolatePrice(prices, mongoReady, vin.token, vin.network, vin.target)
    /\ UNCHANGED <<now, redisConnected, cache, mongoReady, prices, req, bulk, started, vin,
                 regVars, workVars>>

SpecEngine == InitEngine /\ [][InterpolateAt]_vars

\* ================================================== daily grid on its own

MaxGridDay == 4

\* date.setUTCHours(0, 0, 0, 0) left out
setUTCHours_Keep(w) == w

\* date.setUTCHours(0, 0, 0, 0)
setUTCHours(w) == Wide(w.day, 0)

\* the start and end dates handed to generateDailyTimestamps: midnight, noon and the last
\* millisecond of a few days
GridDates == {Wide(day, ms) : day \in 1..MaxGridDay, ms \in {0, DayMs \div 2, DayMs - 1}}

InitGrid ==
    /\ RegistryAtStart
    /\ WorkerAtStart
    /\ now = BootMs
    /\ redisConnected = TRUE
    /\ cache = {}
    /\ mongoReady = TRUE
    /\ prices = {}
    /\ req = [r \in Slots |-> IdleReq]
    /\ bulk = IdleBulk
    /\ started = 0
    /\ vin \in {[startDate |-> s, endDate |-> e] : s \in GridDates, e \in GridDates}
    /\ vout = [pc |-> "loop", currentDate |-> setUTCHours(vin.startDate),
               end |-> setUTCHours(vin.endDate), timestamps |-> <<>>]

\* one test of `while (currentDate <= end)`: push and advance one UTC day, or return
GridLoop ==
    /\ vout.pc = "loop"
    /\ IF LeqWide(vout.currentDate.day * DayMs + vout.currentDate.ms, vout.end)
       THEN vout' = [vout EXCEPT !.timestamps = Append(@, vout.currentDate),
                                 !.currentDate = Wide(@.day + 1, @.ms)]
       ELSE vout' = [vout EXCEPT !.pc = "returned"]
    /\ UNCHANGED <<now, redisConnected, cache, mongoReady, prices, req, bulk, started, vin,
                 regVars, workVars>>

SpecGrid == InitGrid /\ [][GridLoop]_vars

\* ========================================= pairing of step 6 on its own

MaxResults == 4

\* the result of the engine for the i-th timestamp asked for: its price tells the
\* position, in one of two variants
ResultAt(i, variant) ==
    [price |-> 100 * i + variant, source |-> "interpolated", confidence |-> Confidence(5000)]

\* the lists batchInterpolatePrice may return for n timestamps: at every position a
\* result or null
ResultLists(n) ==
    {results \in [1..n -> {Null} \cup {ResultAt(i, variant) : i \in 1..n, variant \in {0, 1}}] :
        \A i \in 1..n : results[i] = Null \/ results[i].price \div 100 = i}

InitPairing ==
    /\ RegistryAtStart
    /\ WorkerAtStart
    /\ now = BootMs
    /\ redisConnected = TRUE
    /\ cache = {}
    /\ mongoReady = TRUE
    /\ prices = {}
    /\ req = [r \in Slots |-> IdleReq]
    /\ bulk = IdleBulk
    /\ started = 0
    /\ \E n \in 0..MaxResults :
          vin \in {[missingTimestamps |-> [i \in 1..n |-> Wide(i, 0)], interpolatedResults |-> results] :
                      results \in ResultLists(n)}
    /\ vout = Pending

\* the filter and map of step 6 applied to the results of the batch
PairResults ==
    /\ vout = Pending
    /\ vout' = [kind |-> "paired",
                prices |-> interpolatedPrices(vin.missingTimestamps, vin.interpolatedResults)]
    /\ UNCHANGED <<now, redisConnected, cache, mongoReady, prices, req, bulk, started, vin,
                 regVars, workVars>>

SpecPairing == InitPairing /\ [][PairResults]_vars

\* ========================================= batch loop of step 5 on its own

MaxMissing == 120

InitLoop ==
    /\ RegistryAtStart
    /\ WorkerAtStart
    /\ now = BootMs
    /\ redisConnected = TRUE
    /\ cache = {}
    /\ mongoReady = TRUE
    /\ prices = {}
    /\ req = [r \in Slots |-> IdleReq]
    /\ bulk = IdleBulk
    /\ started = 0
    /\ vin \in {[missing |-> n] : n \in 0..MaxMissing}
    /\ vout = [pc |-> "loop", batchSize |-> calculateOptimalBatchSize(vin.missing), i |-> 0,
               starts |-> <<>>, fetched |-> <<>>]

\* one test of `for (let i = 0; i < missingTimestamps.length; i += batchSize)`: the batch
\* slice(i, i + batchSize) is fetched timestamp by timestamp, or the loop is left
LoopTurn ==
    /\ vout.pc = "loop"
    /\ LET last == IF vout.i + vout.batchSize < vin.missing THEN vout.i + vout.batchSize
                   ELSE vin.missing
       IN IF vout.i < vin.missing
          THEN vout' = [vout EXCEPT !.fetched = @ \o [k \in 1..(last - vout.i) |-> vout.i + k],
                                    !.starts = Append(@, vout.i),
                                    !.i = @ + vout.batchSize]
          ELSE vout' = [vout EXCEPT !.pc = "left"]
    /\ UNCHANGED <<now, redisConnected, cache, mongoReady, prices, req, bulk, started, vin,
                 regVars, workVars>>

\* every await of the loop resolves, so the loop takes its next turn
SpecLoop == InitLoop /\ [][LoopTurn]_vars /\ WF_vars(LoopTurn)

\* ================================================================ claims

HasEvent(q, e) == \E i \in DOMAIN q.log : q.log[i] = e
Served(q) == q.pc = "done"

\* the point of the store under the request's key (upper(token), lower(network), floor(at / 1s))
ExactPoint(q) ==
    FindOne(prices, toUpperCase(q.params.token), toLowerCase(q.params.network),
            getTime(q.timestamp) \div 1000)

\* the claimed token patterns ^0x[0-9a-fA-F]{1,40}$ and ^[A-Za-z0-9]{2,10}$
ClaimTokenPattern(s) == MatchesAddressUpTo40(s) \/ MatchesSymbol(s)

\* input that must be refused: token, network or timestamp outside the contract
ClaimInvalid(params, clock) ==
    \/ ~ClaimTokenPattern(params.token)
    \/ params.network \notin getSupportedNetworks
    \/ /\ params.timestamp # NoTimestamp
       /\ (isNaNDate(params.timestamp) \/ getTime(params.timestamp) > clock)

\* C1: a request whose fingerprint has a fresh cache entry is answered with the cached
\* price and source = cache, without an upstream fetch, on the GET and the POST route.
C1_CachedEntryServed ==
    \A r \in Slots :
        (req[r].probe # Null /\ req[r].probe.hit) =>
            /\ Served(req[r])
            /\ req[r].resp.status = 200
            /\ req[r].resp.source = "cache"
            /\ req[r].resp.price = req[r].probe.data.price
            /\ ~HasEvent(req[r], "upstreamData") /\ ~HasEvent(req[r], "upstreamNull")

\* C2: a request that missed the cache while the reachable store holds the point of its
\* key is answered with that point's price and stored source (never cache); upstream and
\* interpolation are not called and the store is not written.
C2_ExactStoreHit ==
    [][\A r \in Slots :
          (/\ req[r].pc = "find" /\ req'[r].pc # "find"
           /\ mongoReady /\ ExactPoint(req[r]) # Null) =>
              /\ req'[r].pc = "done"
              /\ req'[r].resp.status = 200
              /\ req'[r].resp.price = ExactPoint(req[r]).price
              /\ req'[r].resp.source = ExactPoint(req[r]).source
              /\ req'[r].resp.source \in {"alchemy", "interpolated"}
              /\ req'[r].log = <<"cacheMiss", "storeHit">>
              /\ prices' = prices]_vars

\* a point written by interpolation is read back by a later request of the same second
C2_Witness ==
    \E r \in Slots :
        /\ Served(req[r]) /\ req[r].log = <<"cacheMiss", "storeHit">>
        /\ req[r].resp.source = "interpolated"

\* C3: with one request at a time, a reachable store without the point and an upstream
\* answer p, resolve returns (p, upstream) and the exact lookup then returns a point with
\* price p and source upstream.
C3_WriteThroughRoundTrip ==
    \A r \in Slots :
        (Served(req[r])
           /\ req[r].log = <<"cacheMiss", "storeMiss", "upstreamData", "createPrice">>) =>
            /\ req[r].resp.status = 200
            /\ req[r].resp.price = req[r].priceData.price
            /\ req[r].resp.source = "alchemy"
            /\ LET p == findPriceByTimestamp(prices, mongoReady, req[r].params.token,
                                             req[r].params.network,
                                             getTime(req[r].timestamp) \div 1000)
               IN p # Null /\ p.price = req[r].priceData.price /\ p.source = "alchemy"

\* the lower-case, mid-second request went through upstream and was written through
C3_Witness ==
    \E r \in Slots :
        /\ Served(req[r])
        /\ req[r].log = <<"cacheMiss", "storeMiss", "upstreamData", "createPrice">>
        /\ req[r].params.token = eth

\* C4: interpolation runs only after the cache missed, the exact lookup missed and
\* upstream gave no data; its result is persisted with source = interpolated under the
\* request's key and returned with source = interpolated.
C4_InterpolationLast ==
    \A r \in Slots :
        LET q == req[r]
        IN /\ (q.pc \in {"interpolate", "saveInterpolated"} \/ HasEvent(q, "interpolated")
                 \/ HasEvent(q, "interpolateNull")) =>
                  /\ Len(q.log) >= 3
                  /\ q.log[1] = "cacheMiss"
                  /\ q.log[2] \in {"storeMiss", "storeDown"}
                  /\ q.log[3] = "upstreamNull"
                  /\ q.priceData = Null
           /\ (Served(q) /\ HasEvent(q, "interpolated")) =>
                  /\ q.resp.status = 200
                  /\ q.resp.source = "interpolated"
                  /\ q.resp.price = q.interp.price
                  /\ ExactPoint(q) # Null
                  /\ ExactPoint(q).source = "interpolated"
                  /\ ExactPoint(q).price = q.interp.price

C4_Witness ==
    \E r \in Slots :
        /\ Served(req[r]) /\ HasEvent(req[r], "interpolated")
        /\ req[r].resp.price = 151

\* C5: a request with invalid input is answered InvalidInput, never with a price, and
\* causes no upstream call, whatever the cache and the store hold.
C5_InvalidInputRejected ==
    \A r \in Slots :
        (Served(req[r]) /\ ClaimInvalid(req[r].params, now)) =>
            /\ req[r].resp.status = 400
            /\ ~HasEvent(req[r], "upstreamData") /\ ~HasEvent(req[r], "upstreamNull")

\* C6: with a valid network and timestamp, a token is accepted exactly when it matches
\* ^0x[0-9a-fA-F]{1,40}$ or ^[A-Za-z0-9]{2,10}$.
C6_TokenAcceptedIffPattern ==
    (/\ vout # Pending
     /\ vin.params.network \in getSupportedNetworks
     /\ isISO8601(vin.params.timestamp) /\ getTime(vin.params.timestamp) <= now) =>
        ((vout = Null) <=> ClaimTokenPattern(vin.params.token))

\* C7: cache miss, no exact point (or store unreachable), no upstream data and no
\* interpolation result end in NotFound.
C7_Exhaustion ==
    \A r \in Slots :
        LET q == req[r]
        IN (/\ Len(q.log) = 4
            /\ q.log[1] = "cacheMiss"
            /\ q.log[2] \in {"storeMiss", "storeDown"}
            /\ q.log[3] = "upstreamNull"
            /\ q.log[4] = "interpolateNull") =>
               /\ Served(q)
               /\ q.resp.status = 404
               /\ q.saved = Null

\* exhaustion with the store unreachable
C7_Witness ==
    \E r \in Slots :
        /\ Served(req[r])
        /\ req[r].log = <<"cacheMiss", "storeDown", "upstreamNull", "interpolateNull">>

\* C8: a failed write-through insert does not change the outcome: the price obtained
\* from upstream or interpolation is returned with its source and no error is surfaced.
C8_InsertFailureSwallowed ==
    \A r \in Slots :
        LET q == req[r]
        IN (Served(q) /\ q.saved # Null /\ q.saved.outcome = "threw") =>
               /\ q.resp.status = 200
               /\ \/ /\ q.priceData # Null
                     /\ q.resp.price = q.priceData.price /\ q.resp.source = "alchemy"
                  \/ /\ q.priceData = Null /\ q.interp # Null
                     /\ q.resp.price = q.interp.price /\ q.resp.source = "interpolated"

\* the store went away before the insert of an upstream price
C8_Witness ==
    \E r \in Slots :
        /\ Served(req[r]) /\ req[r].saved # Null
        /\ req[r].saved.error = "not connected"
        /\ req[r].resp.source = "alchemy"

UniqueKeys(coll) == \A a, b \in coll : SameKey(a, b) => a = b

\* C9: the store never holds two points of one (token, network, unix_ts), and no step of
\* a resolver or of the bulk writer changes or removes a stored point: the first insert wins.
C9_UniqueKeyFirstWins ==
    UniqueKeys(prices) /\ [][UniqueKeys(prices') /\ prices \subseteq prices']_vars

\* a resolver lost the race for its key to a writer with another price
C9_Witness ==
    \E r \in Slots :
        /\ req[r].saved # Null /\ req[r].saved.error = "duplicate key"
        /\ \E d \in prices : SameKey(d, PriceDoc(req[r].saved.data))
                             /\ d.price # req[r].saved.data.price

\* a resolver's createPrice that finds its key taken in the reachable store
InsertConflict(r) ==
    /\ req[r].pc \in {"saveAlchemy", "saveInterpolated"} /\ req'[r].pc = "done"
    /\ mongoReady
    /\ ExactPoint(req[r]) # Null

InRegistry(ids, id) == \E i \in DOMAIN ids : ids[i] = id
Arrived(op) == sreq' # sreq /\ sreq'.op = op
Resumed(h, op) == h \in suspended /\ h \notin suspended' /\ h.op = op
QueueAvailable == bullEnabled /\ bullRedisUp

\* two records for one (lower(token), lower(network))
SamePair(a, b) ==
    /\ toLowerCase(a.token) = toLowerCase(b.token)
    /\ toLowerCase(a.network) = toLowerCase(b.network)

\* C12: the registry never holds two ScheduleRecords for one (lower(token),
\* lower(network)), whatever the interleaving of create, update, delete and runNow.
C12_OneRecordPerPair ==
    \A i, j \in DOMAIN scheduledJobs :
        SamePair(jobObjs[scheduledJobs[i]], jobObjs[scheduledJobs[j]]) => i = j

\* a registered record that the body matches up to letter case, but not exactly
CaseVariantOfExisting(body) ==
    \E i \in DOMAIN scheduledJobs :
        /\ SamePair(jobObjs[scheduledJobs[i]], body)
        /\ (jobObjs[scheduledJobs[i]].token # body.token
              \/ jobObjs[scheduledJobs[i]].network # body.network)

\* C13: a create whose token and/or network differ from a registered record only in
\* letter case fails with AlreadyExists carrying that record's id, and leaves the
\* registry and the queue unchanged.
C13_CaseVariantAlreadyExists ==
    [][(Arrived("create") /\ CaseVariantOfExisting(sreq'.body)) =>
          /\ sres'.status = 409
          /\ sres'.existingJobId = findExistingJob(sreq'.body.token, sreq'.body.network)
          /\ UNCHANGED <<scheduledJobs, jobObjs, queue>>]_vars

\* C14: a record that has left the registry (its delete returned success) is absent
\* from the registry in every later state, even with requests for it in flight.
C14_DeletedStaysAbsent ==
    [][\A id \in DOMAIN jobObjs :
          ~InRegistry(scheduledJobs, id) => ~InRegistry(scheduledJobs', id)]_vars

\* C15: runNow on a disabled record is refused with Disabled, enqueues nothing and
\* leaves the record unchanged; runNow that reaches an available queue adds exactly
\* one job for the record's (upper(token), lower(network)).
C15_RunNow ==
    [][/\ (Arrived("run") /\ MapGet(sreq'.id) # Null /\ ~MapGet(sreq'.id).enabled) =>
             /\ sres' = Response("run", sreq'.id, 400, "Job is disabled")
             /\ UNCHANGED <<queue, jobObjs, scheduledJobs, suspended>>
       /\ \A h \in suspended :
             (Resumed(h, "run") /\ QueueAvailable) =>
                 /\ queue' = Append(queue, sres'.asked)
                 /\ sres'.asked.token = toUpperCase(jobObjs[h.id].token)
                 /\ sres'.asked.network = toLowerCase(jobObjs[h.id].network)
                 /\ sres'.status = 200]_vars

\* a disabled record was refused after another job had been queued
C15_Witness ==
    /\ sres.op = "run" /\ sres.status = 400 /\ sres.error = "Job is disabled"
    /\ queue # <<>>

\* C16: update(id, {enabled: true}) on a registered record hands one job for the
\* record's (upper(token), lower(network)) to the queue; update(id, {enabled: false})
\* hands none; in both cases the record's enabled flag is the requested value afterwards.
C16_UpdateEnqueues ==
    [][/\ (Arrived("update") /\ MapGet(sreq'.id) # Null) =>
             /\ jobObjs'[sreq'.id].enabled = sreq'.body.enabled
             /\ InRegistry(scheduledJobs', sreq'.id)
             /\ queue' = queue
             /\ IF ~sreq'.body.enabled
                THEN suspended' = suspended /\ sres'.status = 200 /\ sres'.asked = Null
                ELSE IF bullEnabled
                THEN \E h \in suspended' \ suspended : h.op = "update" /\ h.id = sreq'.id
                ELSE /\ suspended' = suspended /\ sres'.status = 200
                     /\ sres'.asked = QueueData(jobObjs[sreq'.id], RequestId(sreq'.id))
       /\ \A h \in suspended :
             Resumed(h, "update") =>
                 /\ sres'.status = 200
                 /\ sres'.asked.token = toUpperCase(jobObjs[h.id].token)
                 /\ sres'.asked.network = toLowerCase(jobObjs[h.id].network)
                 /\ queue' = IF bullRedisUp THEN Append(queue, sres'.asked) ELSE queue]_vars

\* a record created as usdc was enabled again and its job queued as USDC
C16_Witness ==
    /\ sres.op = "update" /\ sres.status = 200 /\ sres.queued
    /\ queue # <<>> /\ queue[Len(queue)] = sres.asked
    /\ jobObjs[sres.id].token = usdc /\ sres.asked.token = USDC

\* C17: while the queue is unavailable addPriceHistoryJob returns null as a value and
\* adds nothing; create still records the job and reports success; runNow reports a
\* failure and leaves the record in the registry unchanged.
C17_QueueUnavailable ==
    [][/\ ~QueueAvailable =>
             \A d \in {QueueData(b, RequestId(1)) : b \in ScheduleBodies} :
                 addPriceHistoryJob(queue, bullEnabled, bullRedisUp, d)
                     = [result |-> Null, queue |-> queue]
       /\ (Arrived("create") /\ ~bullEnabled /\ ~validateScheduleRequest(sreq'.body)
             /\ findExistingJob(sreq'.body.token, sreq'.body.network) = 0) =>
             /\ sres'.op = "create" /\ sres'.status = 200
             /\ InRegistry(scheduledJobs', sres'.id)
             /\ jobObjs'[sres'.id].token = sreq'.body.token
             /\ queue' = queue
       /\ \A h \in suspended :
             (Resumed(h, "create") /\ ~bullRedisUp) =>
                 /\ sres'.status = 200 /\ ~sres'.queued
                 /\ UNCHANGED <<scheduledJobs, jobObjs, queue>>
       /\ (Arrived("run") /\ ~bullEnabled /\ MapGet(sreq'.id) # Null
             /\ MapGet(sreq'.id).enabled) =>
             /\ sres'.status = 500
             /\ UNCHANGED <<scheduledJobs, jobObjs, queue>>
       /\ \A h \in suspended :
             (Resumed(h, "run") /\ ~bullRedisUp) =>
                 /\ sres'.status = 500
                 /\ UNCHANGED <<scheduledJobs, jobObjs, queue>>]_vars

\* runNow failed on a lost queue connection and the record is still registered
C17_Witness ==
    /\ sres.op = "run" /\ sres.status = 500
    /\ bullEnabled /\ ~bullRedisUp
    /\ InRegistry(scheduledJobs, sres.id)

\* ================================================== claims: store reads, queue, worker

\* C11: while the store is unreachable the three reads (exact, straddling, range) answer
\* null / empty and none of them raises: an attempt that reads the range of its job then
\* goes on to fetch with no stored day known
C11_UnreachableReadsReturnEmpty ==
    [][~mongoReady =>
         /\ \A d \in prices :
              /\ findPriceByTimestamp(prices, mongoReady, d.token, d.network, d.timestamp) = Null
              /\ findClosestPrices(prices, mongoReady, d.token, d.network, d.timestamp)
                   = <<Null, Null>>
         /\ (wk.pc = "history" /\ wk'.pc \notin {"history", "exited"})
               => (wk'.pc = "fetch" /\ wk'.existingDates = {})]_vars

\* C18: a job is attempted at most 3 times; it is completed by the first attempt that
\* returns, with that attempt's result; it is failed only when its third attempt has
\* thrown; the waits before the retries double, starting at 5 seconds
C18_AttemptsAndBackoff ==
    \A i \in DOMAIN bjob :
        LET job == bjob[i]
            n == Len(job.finished)
        IN /\ job.attemptsMade = n /\ n <= 3
           /\ \A k \in 1..n : job.finished[k] = "returned" => (k = n /\ job.state = "completed")
           /\ job.state = "completed" =>
                (n >= 1 /\ job.finished[n] = "returned" /\ job.returnvalue # Null)
           /\ job.state = "failed" => (n = 3 /\ \A k \in 1..3 : job.finished[k] = "threw")
           /\ job.state = "delayed" => Len(job.waits) = n
           /\ Len(job.waits) <= 2
           /\ \A k \in DOMAIN job.waits : job.waits[k] = 5000 * 2 ^ (k - 1)

\* a job that failed after three attempts, having waited 5 and then 10 seconds
C18_Witness ==
    \E i \in DOMAIN bjob : bjob[i].state = "failed" /\ bjob[i].waits = <<5000, 10000>>

\* no store outage so far: every event counted was a job added
NoOutage == mongoReady /\ started = Len(bjob) + Len(queue)

\* C19: when a job has completed and a job with the same token, network and dates (given,
\* or omitted and derived to the same days) completes after it, the second one inserts no
\* row and returns pricesProcessed = 0
C19_RerunProcessesNothing ==
    \A i, j \in DOMAIN bjob :
        (/\ i < j
         /\ bjob[i].state = "completed" /\ bjob[j].state = "completed"
         /\ bjob[j].data = bjob[i].data
         /\ bjob[j].returnvalue.timeRange.start.day = bjob[i].returnvalue.timeRange.start.day
         /\ bjob[j].returnvalue.timeRange.end.day = bjob[i].returnvalue.timeRange.end.day
         /\ NoOutage)
        => (bjob[j].inserted = 0 /\ bjob[j].returnvalue.pricesProcessed = 0)

\* C20: the pricesProcessed a completed attempt returns is the number of rows the attempt
\* added to the store
C20_ProcessedEqualsInserted ==
    \A i \in DOMAIN bjob :
        bjob[i].state = "completed" => bjob[i].returnvalue.pricesProcessed = bjob[i].inserted

\* the progress values of an attempt follow the contract: within 0..100, never
\* decreasing, 10, 20, 30, 40 first, then values from 50 up to 80 while fetching, then 90
\* right after the last 80 and 100 right after 90
ProgressInOrder(p) ==
    /\ \A k \in DOMAIN p : p[k] >= 0 /\ p[k] <= 100
    /\ \A k \in 1..(Len(p) - 1) : p[k] <= p[k + 1]
    /\ Len(p) >= 3 /\ p[1] = 10 /\ p[2] = 20 /\ p[3] = 30
    /\ Len(p) >= 4 => p[4] = 40
    /\ \A k \in 5..Len(p) :
          \/ p[k] >= 50 /\ p[k] <= 80
          \/ p[k] = 90 /\ p[k - 1] = 80
          \/ p[k] = 100 /\ p[k - 1] = 90

\* C21: within one attempt the reported progress is non-decreasing, stays in 0..100 and
\* passes 10, 20, 30, 40, the values up to 80 of the batched fetch, 90 and 100 in that
\* order; 100 is reported only when the save of step 7 has returned
C21_ProgressCheckpoints ==
    /\ wk.pc \notin {"idle"} => ProgressInOrder(wk.progress)
    /\ \A i \in DOMAIN bjob :
          /\ bjob[i].attemptsMade > 0 => ProgressInOrder(bjob[i].progress)
          /\ (\E k \in DOMAIN bjob[i].progress : bjob[i].progress[k] = 100)
                => (bjob[i].saved /\ bjob[i].state = "completed")
          /\ bjob[i].state = "completed"
                => bjob[i].progress[Len(bjob[i].progress)] = 100

\* a completed attempt that reported a value between 50 and 80 from a batch of its fetch
C21_Witness ==
    \E i \in DOMAIN bjob :
        /\ bjob[i].state = "completed"
        /\ bjob[i].inserted > 0
        /\ \E k \in DOMAIN bjob[i].progress : bjob[i].progress[k] > 50 /\ bjob[i].progress[k] < 80

\* C22: of two back-to-back requests for the same (token, network, timestamp) on the same
\* route with the cache reachable, the first, answered 200 from the store, upstream or
\* interpolation, leaves an entry under its fingerprint, and the second, issued after the
\* first response was received, is answered with source = cache.
C22_SecondFromCache ==
    (/\ Served(req[1]) /\ Served(req[2])
     /\ req[1].method = req[2].method /\ req[1].params = req[2].params
     /\ req[1].params.timestamp # NoTimestamp
     /\ req[1].resp.status = 200) =>
        /\ redisGet(Fingerprint(req[1].params, now)) # Null
        /\ req[2].resp.source = "cache"

\* C23: two requests with the same (token, network, timestamp), resolved against the same
\* reachable store contents (neither wrote to the store), validated alike and with the same
\* upstream answer wherever upstream was asked, get the same status, price, source and
\* timestamp, whatever the cache held when each arrived.
C23_Deterministic ==
    (/\ Served(req[1]) /\ Served(req[2])
     /\ req[1].method = req[2].method /\ req[1].params = req[2].params
     /\ req[1].params.timestamp # NoTimestamp
     /\ req[1].errors = req[2].errors
     /\ req[1].saved = Null /\ req[2].saved = Null
     /\ ~HasEvent(req[1], "storeDown") /\ ~HasEvent(req[2], "storeDown")
     /\ (HasEvent(req[1], "cacheMiss") /\ HasEvent(req[2], "cacheMiss")
            => req[1].priceData = req[2].priceData)) =>
        /\ req[1].resp.status = req[2].resp.status
        /\ req[1].resp.status = 200 =>
              /\ req[1].resp.price = req[2].resp.price
              /\ req[1].resp.source = req[2].resp.source
              /\ req[1].resp.timestamp = req[2].resp.timestamp

\* ------------------------------------------- claims: interpolation engine

\* the points of the collection for the input's token and network
Mine == {d \in prices : d.token = toUpperCase(vin.token) /\ d.network = toLowerCase(vin.network)}
HasBefore == \E d \in Mine : d.timestamp <= vin.target
HasAfter == \E d \in Mine : d.timestamp >= vin.target
Asked == vout # Pending

\* C24: interpolatePrice returns null whenever the store has no point at or before the
\* target or no point at or after it for (token, network), and whenever the store is
\* unreachable.
C24_NullWithoutBothSides ==
    (Asked /\ (~mongoReady \/ ~HasBefore \/ ~HasAfter)) => vout = Null

\* asked one second before the earliest of two stored points, the store reachable
C24_Witness ==
    /\ Asked /\ mongoReady /\ vout = Null
    /\ Mine # {} /\ \A d \in Mine : d.timestamp = vin.target + 1 \/ d.timestamp > vin.target + 1
    /\ \E d \in Mine : d.timestamp = vin.target + 1
    /\ Cardinality(Mine) = 2

\* C25: interpolatePrice returns null when a point of (token, network) is stored exactly
\* at the target second (the pair before/after is then that one point twice), so it never
\* produces a value for a second that already has a stored point.
C25_NullOnStoredSecond ==
    (Asked /\ \E d \in Mine : d.timestamp = vin.target) => vout = Null

\* asked at the second of the middle one of three stored points
C25_Witness ==
    /\ Asked /\ mongoReady /\ vout = Null
    /\ \E d \in Mine : d.timestamp = vin.target
    /\ \E d \in Mine : d.timestamp < vin.target
    /\ \E d \in Mine : d.timestamp > vin.target

\* the nearest stored point at or before, and at or after, the target
Before == CHOOSE d \in Mine : d.timestamp <= vin.target
                              /\ \A e \in Mine : e.timestamp <= vin.target => e.timestamp <= d.timestamp
After == CHOOSE d \in Mine : d.timestamp >= vin.target
                             /\ \A e \in Mine : e.timestamp >= vin.target => e.timestamp >= d.timestamp
Straddled == mongoReady /\ HasBefore /\ HasAfter /\ ~\E d \in Mine : d.timestamp = vin.target

\* C26: for a pair that straddles the target, the price is
\* before.price + (after.price - before.price) * (target - before.ts) / (after.ts - before.ts)
\* rounded to two decimals (halves up), with source = interpolated; 2000.00 on 2024-01-01
\* and 2200.00 on 2024-01-03 give 2100.00 on 2024-01-02.
C26_LinearRounded ==
    (Asked /\ Straddled) =>
        /\ vout # Null
        /\ vout.source = "interpolated"
        /\ LET den == After.timestamp - Before.timestamp
               num == (After.price - Before.price) * (vin.target - Before.timestamp)
               rest == num - (vout.price - Before.price) * den
           IN -den <= 2 * rest /\ 2 * rest < den
        /\ (prices = {Point(ETH, Jan1, 200000), Point(ETH, Jan3, 220000)} /\ vin.target = Jan2)
              => vout.price = 210000

\* the pair 2000.00 / 2200.00 asked at 2024-01-02
C26_Witness ==
    /\ Asked /\ Straddled
    /\ prices = {Point(ETH, Jan1, 200000), Point(ETH, Jan3, 220000)} /\ vin.target = Jan2
    /\ vout.price = 210000

\* C27: every result of the engine carries a confidence that is a number between 0 and 1,
\* for all stored prices the schema allows (zero included) and all gaps.
C27_ConfidenceInUnitInterval ==
    (Asked /\ vout # Null) =>
        /\ ~vout.confidence.nan
        /\ 0 <= vout.confidence.e4 /\ vout.confidence.e4 <= 100 * 100

\* the store of the example: 2000.00 on 2024-01-01 and 2200.00 on 2024-01-03, asked at
\* 2024-01-02 with the store reachable
MidGapExample ==
    /\ Asked /\ mongoReady
    /\ prices = {Point(ETH, Jan1, 200000), Point(ETH, Jan3, 220000)}
    /\ vin = EngineInput(ETH, Jan2)

\* C28 (as stated): the example yields price 2100.00, source interpolated and confidence
\* about 0.91, with time_conf about 0.86, stability about 0.80 and position 1.0.
C28_MidGapAsStated ==
    MidGapExample =>
        /\ vout # Null /\ vout.price = 210000 /\ vout.source = "interpolated"
        /\ ~vout.confidence.nan
        /\ 9050 <= vout.confidence.e4 /\ vout.confidence.e4 <= 9150
        /\ 8550 <= timeConfidence(Jan1, Jan3) /\ timeConfidence(Jan1, Jan3) <= 8650

\* C28 (amended): the example yields price 2100.00, source interpolated and confidence
\* 0.8056 (ten-thousandths, rounded down), composed of time_conf 0.7142 (a gap of two of
\* seven days), stability 0.80 and position 1.0 with weights 0.4 / 0.4 / 0.2.
C28_MidGap ==
    MidGapExample =>
        /\ vout # Null /\ vout.price = 210000 /\ vout.source = "interpolated"
        /\ vout.confidence = Confidence(8056)
        /\ timeConfidence(Jan1, Jan3) = 7142
        /\ stabilityConfidence(200000, 220000) = Confidence(8000)
        /\ positionConfidence(Jan2, Jan1, Jan3) = 100 * 100
        /\ 8056 = (4 * 7142 + 4 * 8000 + 2 * (100 * 100)) \div 10

\* the example was asked and answered with a confidence of 0.8056
C28_Witness == MidGapExample /\ vout # Null /\ vout.confidence.e4 = 8056

\* C29: every stored point with source = upstream (alchemy) has confidence = 1.0.
C29_UpstreamFullConfidence ==
    \A d \in prices :
        d.source = "alchemy" => ("confidence" \in DOMAIN d /\ d.confidence = FullConfidence)

\* C30: when the worker is stopped by a shutdown, every price it fetched in the batches
\* completed so far is already in the store.
C30_CompletedBatchesStored ==
    wk.pc = "exited" =>
        \A i \in DOMAIN wk.fetchedPrices :
            KeyOf(PriceDoc(PriceRecord(wk.token, wk.network, wk.fetchedPrices[i])))
                \in {KeyOf(d) : d \in prices}

\* ------------------------------------------------- claims: grid and batches

\* C31: generateDailyTimestamps(start, end) returns (day(end) - day(start)) + 1 timestamps
\* when day(start) <= day(end) and none otherwise, each at UTC midnight, consecutive ones
\* one day apart, from the midnight of start's day to the midnight of end's day; the
\* worker's grid is that list.
C31_DailyGrid ==
    vout.pc = "returned" =>
        LET ts == vout.timestamps
            d0 == vin.startDate.day
            dn == vin.endDate.day
        IN /\ Len(ts) = IF d0 <= dn THEN dn - d0 + 1 ELSE 0
           /\ \A i \in DOMAIN ts : ts[i].ms = 0
           /\ \A i \in DOMAIN ts : i > 1 => ts[i].day = ts[i - 1].day + 1
           /\ d0 <= dn => (ts[1] = Wide(d0, 0) /\ ts[Len(ts)] = Wide(dn, 0))
           /\ ts = generateDailyTimestamps(vin.startDate, vin.endDate)

\* a grid of three days from a start at noon to an end at midnight
C31_Witness ==
    /\ vout.pc = "returned" /\ Len(vout.timestamps) = 3
    /\ vin.startDate.ms = DayMs \div 2 /\ vin.endDate.ms = 0

\* C32: for every number total >= 1 of missing timestamps the worker's batch size is
\* clamp(10, ceil(total / 10), 100) = max(10, min(100, ceil(total / 10))).
C32_BatchSizeClamp ==
    (wk.pc = "batch" /\ Len(wk.missingTimestamps) >= 1) =>
        LET tenth == (Len(wk.missingTimestamps) + 9) \div 10
            capped == IF tenth < 100 THEN tenth ELSE 100
        IN wk.batchSize = IF capped > 10 THEN capped ELSE 10

\* the dates (YYYY-MM-DD) that have a record in the store for the worker's token and network
StoredDates ==
    {DateString(d.date) : d \in {e \in prices : /\ e.token = toUpperCase(wk.token)
                                                /\ e.network = toLowerCase(wk.network)}}

\* C33: the timestamps the worker fetches from upstream are exactly the daily grid minus
\* the dates that already have a record in the store for (token, network); upstream is
\* never called for a grid date with a stored record, the first grid day included when
\* start_date carries a time of day.
C33_MissingIsGridMinusStored ==
    wk.pc = "batch" =>
        wk.missingTimestamps
            = SelectSeq(wk.timestamps, LAMBDA ts : DateString(ts) \notin StoredDates)

\* the days with a known price for the worker's token and network: stored beforehand or
\* fetched from upstream and saved in this run
KnownDays ==
    {DateString(d.date) : d \in {e \in prices : /\ e.token = toUpperCase(wk.token)
                                                /\ e.network = toLowerCase(wk.network)
                                                /\ e.source = "alchemy"}}

\* C34: when the job has saved, with the store reachable throughout, every grid day still
\* missing after the batched fetch that lies strictly between two days with known prices
\* has an interpolated point in the store.
C34_GapsInterpolated ==
    (wk.pc = "return" /\ NoOutage) =>
        \A k \in DOMAIN wk.timestamps :
            LET day == DateString(wk.timestamps[k])
            IN (/\ day \notin KnownDays
                /\ \E lo \in KnownDays : lo < day
                /\ \E hi \in KnownDays : hi > day)
               => \E d \in prices : /\ d.token = toUpperCase(wk.token)
                                    /\ d.network = toLowerCase(wk.network)
                                    /\ DateString(d.date) = day
                                    /\ d.source = "interpolated"

\* C35: the worker pairs every result that is not null with the timestamp it was computed
\* for: each interpolated record carries the price of a result and the date of that
\* result's own target, wherever the nulls are in the list.
C35_ResultsKeepTheirDates ==
    vout # Pending =>
        \A k \in DOMAIN vout.prices :
            \E i \in DOMAIN vin.interpolatedResults :
                /\ vin.interpolatedResults[i] # Null
                /\ vin.interpolatedResults[i].price = vout.prices[k].price
                /\ vout.prices[k].date = vin.missingTimestamps[i]

\* the attempt of job i ended by throwing in this step
Threw(i) ==
    /\ Len(bjob'[i].finished) = Len(bjob[i].finished) + 1
    /\ bjob'[i].finished[Len(bjob'[i].finished)] = "threw"

C37_BatchLoopTerminates ==
    /\ [](/\ vin.missing >= 1 => vout.batchSize >= 1
          /\ \A t \in DOMAIN vout.starts : t > 1 => vout.starts[t] > vout.starts[t - 1]
          /\ \A k \in DOMAIN vout.fetched : vout.fetched[k] = k
          /\ Len(vout.fetched) <= vin.missing
          /\ vout.pc = "left" => Len(vout.fetched) = vin.missing)
    /\ <>(vout.pc = "left")

\* the loop was left after ten batches of eleven over 101 timestamps
C37_Witness ==
    vout.pc = "left" /\ vin.missing = 101 /\ Len(vout.starts) = 10 /\ vout.batchSize = 11

\* ------------------------------------------- claims: cache and store together

\* the cache entry e is for the point d of the store
EntryOf(e, d) ==
    /\ e.key[1] = toLowerCase(d.token)
    /\ e.key[2] = toLowerCase(d.network)
    /\ getTime(e.key[3]) \div 1000 = d.timestamp

\* C38: under any interleaving of resolve calls (the bulk writer not having run), whenever
\* the cache holds an entry for a point that the store holds too, both carry the same
\* price.
C38_CacheAgreesWithStore ==
    bulk = IdleBulk =>
        \A e \in cache, d \in prices : EntryOf(e, d) => e.value.price = d.price

\* request r is answered in this step
Answers(r) == req[r].pc # "done" /\ req'[r].pc = "done"
Success(resp) == resp.status >= 200 /\ resp.status < 300

\* C39: a request that ends in an error (400, 404, 500) leaves the cache and the store as
\* they were, in its last step and throughout (it made no write-through); the cache
\* changes only when a 2xx response is sent, and a resolver writes to the store only the
\* price it got from upstream or from interpolation.
C39_ErrorsLeaveNoTrace ==
    [][/\ \A r \in Slots :
            (Answers(r) /\ ~Success(req'[r].resp)) =>
                (cache' = cache /\ prices' = prices /\ req'[r].saved = Null)
       /\ cache' # cache => \E r \in Slots : Answers(r) /\ Success(req'[r].resp)
       /\ (prices' # prices /\ bulk.pc # "rows") =>
            \E r \in Slots :
                /\ Answers(r) /\ Success(req'[r].resp)
                /\ \A d \in prices' \ prices :
                      \/ (req[r].pc = "saveAlchemy" /\ d.price = req[r].priceData.price)
                      \/ (req[r].pc = "saveInterpolated" /\ d.price = req[r].interp.price)
      ]_vars

\* a request answered 404 while the cache holds an entry and the store holds points
C39_Witness ==
    \E r \in Slots :
        /\ Served(req[r]) /\ req[r].resp.status = 404
        /\ cache # {} /\ prices # {}

====
